---- MODULE Spec2Model ----
(***************************************************************************)
(* Layout engine and widget arena of ratatui-mana.                         *)
(*                                                                         *)
(*  Spec       the element store of mana-tui-elemental (ElementCtx over a  *)
(*             hecs World): calculate_layout, render, despawn.             *)
(*  SpecBox    one container inside calculate_grow_sizes (the growth loop  *)
(*             taken one iteration at a time) followed by the placement of *)
(*             its children by calculate_positions.                        *)
(*  SpecArena  TypeArena of ratatui-elemental: insert, remove, get.        *)
(*  SpecAttr   the element store with one component taken off one node.    *)
(*  SpecUi     spawn_ui and the element builder of mana-tui-elemental.     *)
(*  SpecRes    the resources of mana-tui-utils on a hecs World.            *)
(*  SpecFrame  the runtime of mana-tui-potion and its per-frame render.    *)
(***************************************************************************)
EXTENDS Integers, Sequences, FiniteSets, TLC

VARIABLES
    \* ---- element store (mana-tui-elemental) ----
    tree,       \* node -> attributes (Width, Height, Direction, Padding, Gap, MainJustify, Children)
    live,       \* handles that are live entities of the World
    props,      \* node -> Props {size, position}, with the calls of the passes made for the node
    status,     \* outcome of the last calculate_layout call
    calls,      \* number of calculate_layout calls since construction
    rstatus,    \* outcome of the last render call
    drawn,      \* draw callbacks issued by the last render call, in order
    stripped,   \* the component taken off a node with World::remove_one, if any
    \* ---- one container in the growth / position pass ----
    box,        \* the container: inner main-axis size, gap, children (policy, intrinsic size)
    bpc,        \* position in calculate_grow_sizes / calculate_positions
    turn,       \* parity of the number of `while let` iterations run so far
    buffer,     \* Vec<GrowEntry>
    remaining,  \* `remaining`
    ksize,      \* child -> main-axis size held in the store
    koff,       \* result of calculate_positions for the children
    legacy,     \* result of calculate_grow_sizes of ratatui-elemental for the same children
    \* ---- TypeArena (ratatui-elemental) ----
    slots,      \* VecWidgets of TypeSlot
    count,
    next_free,
    handles,    \* keys handed out by insert, with the payload each was issued for
    aret,       \* last operation on the arena and what it returned
    \* ---- spawn_ui (mana-tui-elemental/src/ui.rs) ----
    ui,         \* the builder tree handed to spawn_ui
    world,      \* the entities of the hecs World, in spawn order
    to_process, \* VecDeque<Element> of process_ui_system
    upc,        \* position in spawn_ui
    \* ---- resources (mana-tui-utils/src/resource.rs) ----
    rworld,     \* the entities of the hecs World that holds the resources
    rret,       \* last operation on the resources and its outcome
    \* ---- the runtime's frame (mana-tui-potion/src/lib.rs) ----
    fpc,        \* position in runtime / render
    flog,       \* the steps of the frames so far, in order
    flayout     \* what calculate_layout returned in the current frame

treeVars  == <<tree, live, props, status, calls, rstatus, drawn, stripped>>
boxVars   == <<box, bpc, turn, buffer, remaining, ksize, koff, legacy>>
arenaVars == <<slots, count, next_free, handles, aret>>
uiVars    == <<ui, world, to_process, upc>>
resVars   == <<rworld, rret>>
frameVars == <<fpc, flog, flayout>>
vars      == <<tree, live, props, status, calls, rstatus, drawn, stripped,
               box, bpc, turn, buffer, remaining, ksize, koff, legacy,
               slots, count, next_free, handles, aret,
               ui, world, to_process, upc,
               rworld, rret, fpc, flog, flayout>>

----------------------------------------------------------------------------
\* Arithmetic helpers

\* u16::saturating_sub
SatSub(a, b) == IF a > b THEN a - b ELSE 0

MinOf(a, b) == IF a < b THEN a ELSE b

MaxOf(a, b) == IF a > b THEN a ELSE b

SetMin(S) == CHOOSE m \in S : \A o \in S : m <= o

\* the elements of a set of numbers in ascending order
RECURSIVE SetToSeq(_)
SetToSeq(S) ==
    IF S = {} THEN <<>> ELSE LET m == SetMin(S) IN <<m>> \o SetToSeq(S \ {m})

RECURSIVE SumSeq(_)
SumSeq(s) == IF s = <<>> THEN 0 ELSE Head(s) + SumSeq(Tail(s))

\* children.len().saturating_sub(1) as u16 * gap
GapTotal(n, gap) == SatSub(n, 1) * gap

----------------------------------------------------------------------------
\* Bounds of the container specification

MaxKids == 3

MaxGap == 1

\* intrinsic main-axis sizes tried for a child
KidSizes == {0, 1, 2, 4}

\* inner main-axis sizes tried for the container
BoxInner == {0, 1, 2, 3, 5, 7, 10, 12, 24}

Justify == {"Start", "Center", "SpaceBetween", "SpaceAround", "SpaceEvenly", "End"}

KidSet == [is_grow : BOOLEAN, size : KidSizes]

KidLists == UNION {[1..n -> KidSet] : n \in 0..MaxKids}

----------------------------------------------------------------------------
\* calculate_grow_sizes, main axis

\* the Vec<GrowEntry> built from the children, in children order
MakeBuffer(kids, sizes) ==
    [i \in 1..Len(kids) |-> [is_grow |-> kids[i].is_grow, main |-> sizes[i], entity |-> i]]

\* insert e behind every entry whose key is not larger (sort_by_key is stable)
InsertByMain(s, e) ==
    LET k == Cardinality({i \in 1..Len(s) : s[i].main <= e.main})
    IN  SubSeq(s, 1, k) \o <<e>> \o SubSeq(s, k + 1, Len(s))

RECURSIVE SortFrom(_, _, _)
SortFrom(s, i, acc) ==
    IF i > Len(s) THEN acc ELSE SortFrom(s, i + 1, InsertByMain(acc, s[i]))

\* buffer.sort_by_key(|entry| entry.size.main_axis)
SortByMain(s) == SortFrom(s, 1, <<>>)

\* remaining_size.main_axis before the loop
RemainingMain(inner, sizes, gap) ==
    SatSub(SatSub(inner, SumSeq(sizes)), GapTotal(Len(sizes), gap))

\* index in buf (1-based) of the first entry of `rest` whose size differs from
\* that of `smallest`; 0 stands for None
SecondSmallest(buf) ==
    LET d == {i \in 2..Len(buf) : buf[i].main # buf[1].main}
    IN  IF d = {} THEN 0 ELSE SetMin(d)

\* rest.iter().filter(|entry| entry.is_grow).count() + 1
GrowCount(buf) == Cardinality({i \in 2..Len(buf) : buf[i].is_grow}) + 1

\* number of Grow entries in front of entry i
GrowRank(buf, i) == Cardinality({j \in 1..(i - 1) : buf[j].is_grow})

\* an even distribution that loses the units of the integer division
DistributeEvenly_DropRemainder(buf, rem) ==
    LET gc     == GrowCount(buf)
        growth == rem \div gc
    IN  [i \in 1..Len(buf) |->
            IF buf[i].is_grow THEN [buf[i] EXCEPT !.main = @ + growth] ELSE buf[i]]

\* the None arm: remaining / grow_count to every Grow entry, one more to the
\* first remaining % grow_count of them
DistributeEvenly(buf, rem) ==
    LET gc        == GrowCount(buf)
        growth    == rem \div gc
        remainder == rem % gc
    IN  [i \in 1..Len(buf) |->
            IF buf[i].is_grow
            THEN [buf[i] EXCEPT !.main =
                     @ + growth + (IF GrowRank(buf, i) < remainder THEN 1 ELSE 0)]
            ELSE buf[i]]

\* a Some arm that raises every entry of buffer[..=end], Grow or not
RaiseToTarget_All(buf, idx) ==
    [i \in 1..Len(buf) |->
        IF i <= idx - 1 THEN [buf[i] EXCEPT !.main = buf[idx].main] ELSE buf[i]]

\* the Some arm: Grow entries of buffer[..=end] are raised to the target size
RaiseToTarget(buf, idx) ==
    [i \in 1..Len(buf) |->
        IF i <= idx - 1 /\ buf[i].is_grow
        THEN [buf[i] EXCEPT !.main = buf[idx].main]
        ELSE buf[i]]

\* one evaluation of the `while let` head and body
GrowIter(buf, rem) ==
    IF buf = <<>>
    THEN [done |-> TRUE, buf |-> buf, rem |-> rem]
    ELSE LET idx == SecondSmallest(buf)
         IN  IF idx = 0
             THEN [done |-> TRUE, buf |-> DistributeEvenly(buf, rem), rem |-> rem]
             ELSE [done |-> FALSE,
                   buf  |-> RaiseToTarget(buf, idx),
                   rem  |-> SatSub(rem, SatSub(buf[idx].main, buf[1].main))]

\* the loop run to its end; a state of the loop that comes back never leaves it
RECURSIVE GrowLoop(_, _, _)
GrowLoop(buf, rem, seen) ==
    IF <<buf, rem>> \in seen
    THEN [hang |-> TRUE, buf |-> buf]
    ELSE LET r == GrowIter(buf, rem)
         IN  IF r.done
             THEN [hang |-> FALSE, buf |-> r.buf]
             ELSE GrowLoop(r.buf, r.rem, seen \cup {<<buf, rem>>})

\* sizes written back to the children: query.props.size = entry.size
WriteBack(buf, sizes) ==
    [i \in 1..Len(sizes) |->
        LET es == {j \in 1..Len(buf) : buf[j].entity = i}
        IN  IF es = {} THEN sizes[i] ELSE buf[CHOOSE j \in es : TRUE].main]

----------------------------------------------------------------------------
\* calculate_positions, one container

\* SpaceBetween with a single child divides by children.len() - 1 = 0
AlignPanics(j, n) == j = "SpaceBetween" /\ n = 1

\* remaining_size with u16::wrapping_sub: the subtraction wraps around below 0
PosRemaining_Wrapping(inner, sizes, gap) ==
    (inner - (SumSeq(sizes) + GapTotal(Len(sizes), gap))) % 65536

\* remaining_size of calculate_positions
PosRemaining(inner, sizes, gap) ==
    SatSub(inner, SumSeq(sizes) + GapTotal(Len(sizes), gap))

AlignDefault == [start |-> 0, inbetween |-> 0, remainder |-> 0]

\* the `match` with a Center arm that forgets to halve the remaining space and
\* a SpaceBetween arm that divides by the number of children
AlignValues_WrongShares(j, n, rem) ==
    CASE j = "Start"  -> AlignDefault
      [] j = "Center" -> [start |-> rem, inbetween |-> 0, remainder |-> 0]
      [] j = "End"    -> [start |-> rem, inbetween |-> 0, remainder |-> 0]
      [] j = "SpaceBetween" ->
            IF n = 0 THEN AlignDefault
            ELSE [start |-> 0, inbetween |-> rem \div n, remainder |-> rem % n]
      [] j = "SpaceAround" ->
            IF n = 0 THEN AlignDefault
            ELSE [start |-> rem \div (2 * n),
                  inbetween |-> (rem \div (2 * n)) * 2,
                  remainder |-> rem % (2 * n)]
      [] j = "SpaceEvenly" ->
            IF n = 0 THEN AlignDefault
            ELSE [start |-> (rem \div (2 * n + 2)) * 2,
                  inbetween |-> (rem \div (2 * n + 2)) * 2,
                  remainder |-> 0]

\* the `match *main_justify`
AlignValues(j, n, rem) ==
    CASE j = "Start"  -> AlignDefault
      [] j = "Center" -> [start |-> rem \div 2, inbetween |-> 0, remainder |-> 0]
      [] j = "End"    -> [start |-> rem, inbetween |-> 0, remainder |-> 0]
      [] j = "SpaceBetween" ->
            IF n = 0 THEN AlignDefault
            ELSE [start |-> 0,
                  inbetween |-> rem \div (n - 1),
                  remainder |-> rem % (n - 1)]
      [] j = "SpaceAround" ->
            IF n = 0 THEN AlignDefault
            ELSE [start |-> rem \div (2 * n),
                  inbetween |-> (rem \div (2 * n)) * 2,
                  remainder |-> rem % (2 * n)]
      [] j = "SpaceEvenly" ->
            IF n = 0 THEN AlignDefault
            ELSE [start |-> (rem \div (2 * n + 2)) * 2,
                  inbetween |-> (rem \div (2 * n + 2)) * 2,
                  remainder |-> 0]

\* a tick_rem that hands out a unit whether or not one is left
TickRem_Always(remainder) == 1

\* AlignValues::tick_rem
TickRem(remainder) == IF remainder = 0 THEN 0 ELSE 1

\* the try_for_each over the children: offsets of children i.. on the main axis
RECURSIVE PlaceFrom(_, _, _, _)
PlaceFrom(sizes, i, gap, align) ==
    IF i > Len(sizes) THEN <<>>
    ELSE LET tick == TickRem(align.remainder)
             next == [align EXCEPT
                        !.start = @ + sizes[i] + gap + align.inbetween + tick,
                        !.remainder = @ - tick]
         IN  <<align.start>> \o PlaceFrom(sizes, i + 1, gap, next)

\* a placement whose cursor never advances: every child at the leading offset
ChildOffsets_NoAdvance(inner, sizes, gap, j) ==
    [i \in 1..Len(sizes) |->
        AlignValues(j, Len(sizes), PosRemaining(inner, sizes, gap)).start]

\* main-axis offsets of the children from the container's inner origin
ChildOffsets(inner, sizes, gap, j) ==
    PlaceFrom(sizes, 1, gap, AlignValues(j, Len(sizes), PosRemaining(inner, sizes, gap)))

----------------------------------------------------------------------------
\* The element store of mana-tui-elemental (layout.rs)

Nodes == 1..3

Root == 1

MaxDespawn == 1

MaxCalls == 2

\* the components of an element that the layout passes and render read
Attrs == {"Width", "Height", "Padding", "Children", "Direction", "Gap",
          "MainJustify", "Props"}

NoAttr == [node |-> 0, attr |-> "none"]

\* entity e has none of one of the components `attrs`: QueryOne::get is None
Lacks(e, attrs) == stripped.node = e /\ stripped.attr \in attrs

FixedP(n) == [k |-> "Fixed", n |-> n]

FitP == [k |-> "Fit", n |-> 0]

GrowP == [k |-> "Grow", n |-> 0]

\* Padding::uniform
UniformPad(p) == [left |-> p, right |-> p, top |-> p, bottom |-> p]

Vec(x, y) == [x |-> x, y |-> y]

\* Props of a freshly created element
FreshProps == [size |-> Vec(0, 0), position |-> Vec(0, 0), visits |-> <<>>]

\* number of calls of the passes recorded in P
RECURSIVE TotalVisits(_, _)
TotalVisits(P, n) == IF n = 0 THEN 0 ELSE Len(P[n].visits) + TotalVisits(P, n - 1)

\* the body of a pass starts to run for e: the call is recorded with its rank
\* among the calls of the current calculate_layout
Visit(P, e, pass) ==
    [P EXCEPT ![e].visits = Append(@, [pass |-> pass, at |-> TotalVisits(P, Len(P)) + 1])]

\* a new calculate_layout starts: nothing is recorded yet
ClearVisits(P) == [n \in DOMAIN P |-> [P[n] EXCEPT !.visits = <<>>]]

\* AxisSizes::from_u16vec2 / axify
Axify(v, dir) ==
    IF dir = "Horizontal" THEN [main |-> v.x, cross |-> v.y]
                          ELSE [main |-> v.y, cross |-> v.x]

\* AxisSizes::to_u16vec2
ToVec(a, dir) ==
    IF dir = "Horizontal" THEN Vec(a.main, a.cross) ELSE Vec(a.cross, a.main)

\* main_size / cross_size: the policy of a child on the parent's axes
MainPolicy(dir, n) == IF dir = "Horizontal" THEN n.width ELSE n.height

CrossPolicy(dir, n) == IF dir = "Horizontal" THEN n.height ELSE n.width

\* Size::should_clamp
ShouldClamp(policy) == policy.k = "Fixed"

\* Size::is_grow
IsGrow(policy) == policy.k = "Grow"

\* props.size.saturating_sub(u16vec2(right + left, bottom + top))
InnerSize(size, pad) ==
    Vec(SatSub(size.x, pad.right + pad.left), SatSub(size.y, pad.bottom + pad.top))

\* an accumulation that adds the children up on the cross axis as well
Increase_SumCross(acc, by, dir) ==
    IF dir = "Horizontal"
    THEN [main |-> acc.main + by.x, cross |-> acc.cross + by.y]
    ELSE [main |-> acc.main + by.y, cross |-> acc.cross + by.x]

\* AxisSizes::increase
Increase(acc, by, dir) ==
    IF dir = "Horizontal"
    THEN [main |-> acc.main + by.x, cross |-> MaxOf(acc.cross, by.y)]
    ELSE [main |-> acc.main + by.y, cross |-> MaxOf(acc.cross, by.x)]

\* AxisSizes::pad
PadAxis(a, pad, dir) ==
    IF dir = "Horizontal"
    THEN [main |-> a.main + pad.left + pad.right, cross |-> a.cross + pad.top + pad.bottom]
    ELSE [main |-> a.main + pad.top + pad.bottom, cross |-> a.cross + pad.left + pad.right]

\* AxisSizes::shrink
ShrinkAxis(a, pad, dir) ==
    IF dir = "Horizontal"
    THEN [main  |-> SatSub(a.main, pad.left + pad.right),
          cross |-> SatSub(a.cross, pad.top + pad.bottom)]
    ELSE [main  |-> SatSub(a.main, pad.top + pad.bottom),
          cross |-> SatSub(a.cross, pad.left + pad.right)]

\* a clamp that does not ask for the policy of the container
ClampChild_Always(size, width, height, max_size) ==
    Vec(MinOf(size.x, max_size.x), MinOf(size.y, max_size.x))

\* the clamp of one child in calculate_fit_sizes: both axes are clamped against
\* max_size.x, each when the policy of the container on that axis is Fixed
ClampChild(size, width, height, max_size) ==
    Vec(IF ShouldClamp(width) THEN MinOf(size.x, max_size.x) ELSE size.x,
        IF ShouldClamp(height) THEN MinOf(size.y, max_size.x) ELSE size.y)

\* the `for child in children` loop of calculate_fit_sizes from child i on:
\* clamp the child and add it to space_used
RECURSIVE ClampAndSum(_, _, _, _, _, _)
ClampAndSum(e, kids, i, max_size, acc, P) ==
    IF i > Len(kids) THEN [space_used |-> acc, props |-> P]
    ELSE LET c  == kids[i]
             sz == ClampChild(P[c].size, tree[e].width, tree[e].height, max_size)
         IN  ClampAndSum(e, kids, i + 1, max_size,
                         Increase(acc, sz, tree[e].direction),
                         [P EXCEPT ![c].size = sz])

\* ElementCtx::calculate_fit_sizes; FitChildren is its try_for_each over the
\* children
RECURSIVE FitSizes(_, _)
RECURSIVE FitChildren(_, _, _)
FitChildren(kids, i, P) ==
    IF i > Len(kids) THEN [res |-> "ok", props |-> P]
    ELSE LET r == FitSizes(kids[i], P)
         IN  IF r.res # "ok" THEN r ELSE FitChildren(kids, i + 1, r.props)

FitSizes(e, P) ==
    IF e \notin live THEN [res |-> "err", props |-> P]
    ELSE IF Lacks(e, {"Width", "Height", "Padding", "Children", "Direction", "Props"})
    THEN [res |-> "panic", props |-> P]
    ELSE
    LET n  == tree[e]
        P1 == [Visit(P, e, "fit") EXCEPT ![e].size =
                  Vec(IF n.width.k = "Fixed" THEN n.width.n ELSE @.x,
                      IF n.height.k = "Fixed" THEN n.height.n ELSE @.y)]
        max_size == InnerSize(P1[e].size, n.padding)
        rc == FitChildren(n.children, 1, P1)
    IN  IF rc.res # "ok" THEN rc
        ELSE IF Lacks(e, {"Gap"}) THEN [res |-> "panic", props |-> rc.props]
        ELSE
        LET cl    == ClampAndSum(e, n.children, 1, max_size,
                                 [main |-> 0, cross |-> 0], rc.props)
            padded == PadAxis(cl.space_used, n.padding, n.direction)
            used   == ToVec([padded EXCEPT !.main = @ + GapTotal(Len(n.children), n.gap)],
                            n.direction)
        IN  [res   |-> "ok",
             props |-> [cl.props EXCEPT ![e].size =
                          Vec(IF n.width.k \in {"Fit", "Grow"} THEN used.x ELSE @.x,
                              IF n.height.k \in {"Fit", "Grow"} THEN used.y ELSE @.y)]]

\* a cross-axis pass that looks the children up and leaves their sizes alone
CrossGrow_LeaveSize(kids, i, dir, inner, P) ==
    [res   |-> IF \A k \in i..Len(kids) : kids[k] \in live THEN "ok" ELSE "err",
     props |-> P]

\* the cross-axis try_for_each of calculate_grow_sizes from child i on
RECURSIVE CrossGrow(_, _, _, _, _)
CrossGrow(kids, i, dir, inner, P) ==
    IF i > Len(kids) THEN [res |-> "ok", props |-> P]
    ELSE LET c == kids[i]
         IN  IF c \notin live THEN [res |-> "err", props |-> P]
             ELSE IF Lacks(c, {"Props", "Width", "Height"})
             THEN [res |-> "panic", props |-> P]
             ELSE IF ~IsGrow(CrossPolicy(dir, tree[c]))
             THEN CrossGrow(kids, i + 1, dir, inner, P)
             ELSE CrossGrow(kids, i + 1, dir, inner,
                      [P EXCEPT ![c].size =
                          ToVec([Axify(@, dir) EXCEPT !.cross = Axify(inner, dir).cross],
                                dir)])

\* main-axis sizes of the children as the store holds them; sum_space_used
\* passes over a child that is not live
KidMainSizes(kids, dir, P) ==
    [i \in 1..Len(kids) |->
        IF kids[i] \in live /\ ~Lacks(kids[i], {"Props"})
        THEN Axify(P[kids[i]].size, dir).main ELSE 0]

\* is_grow of the GrowEntry of each child
KidPolicies(kids, dir) ==
    [i \in 1..Len(kids) |-> [is_grow |-> IsGrow(MainPolicy(dir, tree[kids[i]]))]]

\* a final loop that calls calculate_grow_sizes for no child
GrowChildren_None(kids, i, P) == [res |-> "ok", props |-> P]

\* ElementCtx::calculate_grow_sizes; GrowChildren is the final loop over the
\* children
RECURSIVE GrowSizes(_, _)
RECURSIVE GrowChildren(_, _, _)
GrowChildren(kids, i, P) ==
    IF i > Len(kids) THEN [res |-> "ok", props |-> P]
    ELSE LET r == GrowSizes(kids[i], P)
         IN  IF r.res # "ok" THEN r ELSE GrowChildren(kids, i + 1, r.props)

GrowSizes(e, P) ==
    IF e \notin live THEN [res |-> "err", props |-> P]
    ELSE IF Lacks(e, {"Props", "Padding", "Children", "Direction", "Gap"})
    THEN [res |-> "panic", props |-> P]
    ELSE
    LET n     == tree[e]
        kids  == n.children
        dir   == n.direction
        inner == InnerSize(P[e].size, n.padding)
        rem   == RemainingMain(Axify(inner, dir).main, KidMainSizes(kids, dir, P), n.gap)
        cx    == CrossGrow(kids, 1, dir, inner, Visit(P, e, "grow"))
    IN  IF cx.res # "ok" THEN cx
        ELSE
        LET sizes == KidMainSizes(kids, dir, cx.props)
            loop  == GrowLoop(SortByMain(MakeBuffer(KidPolicies(kids, dir), sizes)), rem, {})
        IN  IF loop.hang THEN [res |-> "hang", props |-> cx.props]
            ELSE
            LET final == WriteBack(loop.buf, sizes)
                P2 == [c \in DOMAIN P |->
                         IF \E i \in 1..Len(kids) : kids[i] = c
                         THEN LET i == CHOOSE i \in 1..Len(kids) : kids[i] = c
                              IN  [cx.props[c] EXCEPT !.size =
                                     ToVec([Axify(cx.props[c].size, dir)
                                               EXCEPT !.main = final[i]], dir)]
                         ELSE cx.props[c]]
            IN  GrowChildren(kids, 1, P2)

\* ElementCtx::calculate_positions; PosChildren is its try_for_each over the
\* children, offs the main-axis offsets of the children
RECURSIVE CalcPositions(_, _)
RECURSIVE PosChildren(_, _, _, _, _)
PosChildren(e, kids, i, offs, P) ==
    IF i > Len(kids) THEN [res |-> "ok", props |-> P]
    ELSE LET c == kids[i]
         IN  IF c \notin live \/ Lacks(c, {"Props"}) THEN [res |-> "err", props |-> P]
             ELSE
             LET pad  == tree[e].padding
                 base == P[e].position
                 at   == IF tree[e].direction = "Horizontal"
                         THEN Vec(base.x + offs[i] + pad.left, base.y + pad.top)
                         ELSE Vec(base.x + pad.left, base.y + offs[i] + pad.top)
                 r    == CalcPositions(c, [P EXCEPT ![c].position = at])
             IN  IF r.res # "ok" THEN r ELSE PosChildren(e, kids, i + 1, offs, r.props)

CalcPositions(e, P) ==
    IF e \notin live THEN [res |-> "err", props |-> P]
    ELSE IF Lacks(e, {"Props", "Padding", "Children", "Direction", "Gap", "MainJustify"})
    THEN [res |-> "panic", props |-> P]
    ELSE
    LET n     == tree[e]
        kids  == n.children
        dir   == n.direction
        sizes == KidMainSizes(kids, dir, P)
        inner == ShrinkAxis(Axify(P[e].size, dir), n.padding, dir).main
        P1    == Visit(P, e, "pos")
    IN  IF AlignPanics(n.justify, Len(kids)) THEN [res |-> "panic", props |-> P1]
        ELSE PosChildren(e, kids, 1, ChildOffsets(inner, sizes, n.gap, n.justify), P1)

\* calculate_layout that runs every pass and reports an error at the end
CalculateLayoutOf_NoShortCircuit(P) ==
    LET fit  == FitSizes(Root, ClearVisits(P))
        grow == GrowSizes(Root, fit.props)
    IN  IF fit.res = "panic" \/ grow.res = "panic"
        THEN [status |-> "Panic", props |-> grow.props]
        ELSE IF grow.res = "hang" THEN [status |-> "Hang", props |-> grow.props]
        ELSE
        LET pos == CalcPositions(Root, grow.props)
        IN  [status |-> IF pos.res = "panic" THEN "Panic"
                        ELSE IF fit.res = "err" \/ grow.res = "err" \/ pos.res = "err"
                        THEN "Err" ELSE "Ok",
             props  |-> pos.props]

\* ElementCtx::calculate_layout: the three passes, each `?`-propagated
CalculateLayoutOf(P) ==
    LET fit == FitSizes(Root, ClearVisits(P))
    IN  IF fit.res = "err" THEN [status |-> "Err", props |-> fit.props]
        ELSE IF fit.res = "panic" THEN [status |-> "Panic", props |-> fit.props]
        ELSE
        LET grow == GrowSizes(Root, fit.props)
        IN  IF grow.res = "err" THEN [status |-> "Err", props |-> grow.props]
            ELSE IF grow.res = "panic" THEN [status |-> "Panic", props |-> grow.props]
            ELSE IF grow.res = "hang" THEN [status |-> "Hang", props |-> grow.props]
            ELSE
            LET pos == CalcPositions(Root, grow.props)
            IN  [status |-> CASE pos.res = "ok"    -> "Ok"
                              [] pos.res = "err"   -> "Err"
                              [] pos.res = "panic" -> "Panic",
                 props  |-> pos.props]

\* Rect::intersection (ratatui)
Intersection(a, b) ==
    LET x1 == MaxOf(a.x, b.x)
        y1 == MaxOf(a.y, b.y)
        x2 == MinOf(a.x + a.width, b.x + b.width)
        y2 == MinOf(a.y + a.height, b.y + b.height)
    IN  [x |-> x1, y |-> y1, width |-> SatSub(x2, x1), height |-> SatSub(y2, y1)]

\* a split_area that hands out the node's own rectangle without the clip
SplitArea_NoClip(p, area) ==
    [x |-> p.position.x, y |-> p.position.y, width |-> p.size.x, height |-> p.size.y]

\* Props::split_area
SplitArea(p, area) ==
    Intersection(area, [x |-> p.position.x, y |-> p.position.y,
                        width |-> p.size.x, height |-> p.size.y])

\* ElementCtx::render; RenderChildren is its loop over the children.  The
\* `expect` on query_one panics for a handle that is not live, the `unwrap`
\* for an entity without Props; without Children the node has no loop.
RECURSIVE RenderWalk(_, _, _)
RECURSIVE RenderChildren(_, _, _, _)
RenderChildren(kids, i, area, log) ==
    IF i > Len(kids) THEN [panic |-> FALSE, log |-> log]
    ELSE LET r == RenderWalk(kids[i], area, log)
         IN  IF r.panic THEN r ELSE RenderChildren(kids, i + 1, area, r.log)

RenderWalk(e, area, log) ==
    IF e \notin live \/ Lacks(e, {"Props"}) THEN [panic |-> TRUE, log |-> log]
    ELSE LET clipped == SplitArea(props[e], area)
         IN  RenderChildren(IF Lacks(e, {"Children"}) THEN <<>> ELSE tree[e].children,
                            1, clipped,
                            Append(log, [node |-> e, area |-> clipped]))

\* the area of the buffer handed to render
ScreenArea == [x |-> 0, y |-> 0, width |-> 8, height |-> 8]

----------------------------------------------------------------------------
\* Idle values of the variables a specification does not use

TreeIdle ==
    /\ tree = <<>> /\ live = {} /\ props = <<>> /\ status = "none"
    /\ calls = 0 /\ rstatus = "none" /\ drawn = <<>>
    /\ stripped = NoAttr

BoxIdle ==
    /\ box = [inner |-> 0, gap |-> 0, kids |-> <<>>]
    /\ bpc = "idle" /\ turn = 0 /\ buffer = <<>> /\ remaining = 0
    /\ ksize = <<>> /\ koff = [justify |-> "none", panic |-> FALSE, off |-> <<>>]
    /\ legacy = [out |-> "none", sizes |-> <<>>]

ArenaIdle ==
    /\ slots = <<>> /\ count = 0 /\ next_free = 0
    /\ handles = <<>> /\ aret = [op |-> "none"]

UiIdle ==
    /\ ui = <<>> /\ world = <<>> /\ to_process = <<>> /\ upc = "idle"

ResIdle ==
    /\ rworld = <<>> /\ rret = [op |-> "none"]

FrameIdle ==
    /\ fpc = "idle" /\ flog = <<>> /\ flayout = "none"

----------------------------------------------------------------------------
\* calculate_grow_sizes of ratatui-elemental (src/ratatui-elemental/src/layout.rs),
\* main axis: the two smallest Grow children are tracked in `smallest`

\* u16
U16 == 65536

\* how the build treats integer overflow: a panic (debug) or a wrap (release)
Builds == {"debug", "release"}

\* the children whose main-axis policy is Grow, in the order of the list
GrowKids(kids) == SetToSeq({i \in 1..Len(kids) : kids[i].is_grow})

\* `match smallest { ... }` for one child c; 0 stands for None
TrackSmallest(sm, c, sizes) ==
    IF sm[1] = 0 THEN <<c, 0>>
    ELSE IF sm[2] = 0
    THEN IF sizes[sm[1]] < sizes[c] THEN <<sm[1], c>>
         ELSE IF sizes[c] < sizes[sm[1]] THEN <<c, sm[1]>>
         ELSE sm
    ELSE IF sizes[sm[1]] < sizes[c] THEN <<c, sm[1]>>
         ELSE IF sizes[c] < sizes[sm[2]] THEN <<sm[1], c>>
         ELSE sm

\* the `for child in children` loop that fills `smallest`, from Grow child i on
RECURSIVE Smallest(_, _, _, _)
Smallest(gk, i, sm, sizes) ==
    IF i > Len(gk) THEN sm
    ELSE Smallest(gk, i + 1, TrackSmallest(sm, gk[i], sizes), sizes)

\* all_equal: every Grow child has the size of the Grow child before it
AllEqual(gk, sizes) == \A i \in 2..Len(gk) : sizes[gk[i]] = sizes[gk[i - 1]]

\* the `all_equal && grow_count > 0` branch: every Grow child is set to the
\* share, the first one to the share plus the whole remainder
SetToShare(gk, sizes, rem) ==
    [i \in 1..Len(sizes) |->
        IF i \notin {gk[j] : j \in 1..Len(gk)} THEN sizes[i]
        ELSE (rem \div Len(gk)) + (IF i = gk[1] THEN rem % Len(gk) ELSE 0)]

\* the `while remaining_size.main_axis > 0` loop; `seen` holds the loop states
\* passed so far, and meeting one again means that the loop does not end
RECURSIVE LegacyLoop(_, _, _, _, _)
LegacyLoop(kids, sizes, rem, seen, build) ==
    LET gk == GrowKids(kids)
        sm == Smallest(gk, 1, <<0, 0>>, sizes)
    IN  IF rem = 0 THEN [out |-> "ok", sizes |-> sizes]
        ELSE IF <<sizes, rem>> \in seen THEN [out |-> "hang", sizes |-> sizes]
        ELSE IF AllEqual(gk, sizes) /\ Len(gk) > 0
        THEN [out |-> "ok", sizes |-> SetToShare(gk, sizes, rem)]
        ELSE IF sm[1] = 0 THEN [out |-> "ok", sizes |-> sizes]
        ELSE IF sm[2] = 0
        THEN [out |-> "ok", sizes |-> [sizes EXCEPT ![sm[1]] = rem]]
        ELSE
        LET asize == sizes[sm[1]]
            bsize == sizes[sm[2]]
            diff  == (bsize - asize) % U16
            left  == (rem - diff) % U16
            rem2  == MinOf(rem, left)
        IN  IF asize = bsize THEN [out |-> "assert", sizes |-> sizes]
            ELSE IF build = "debug" /\ (bsize < asize \/ diff > rem)
            THEN [out |-> "underflow", sizes |-> sizes]
            ELSE LegacyLoop(kids, [sizes EXCEPT ![sm[1]] = rem2], rem2,
                            seen \cup {<<sizes, rem>>}, build)

----------------------------------------------------------------------------
\* SpecBox: one container through calculate_grow_sizes and calculate_positions

InitBox ==
    /\ box \in [inner : BoxInner, gap : 0..MaxGap, kids : KidLists]
    /\ bpc = "start"
    /\ turn = 0
    /\ buffer = <<>>
    /\ remaining = 0
    /\ ksize = [i \in 1..Len(box.kids) |-> box.kids[i].size]
    /\ koff = [justify |-> "none", panic |-> FALSE, off |-> <<>>]
    /\ legacy = [out |-> "none", sizes |-> <<>>]
    /\ TreeIdle
    /\ ArenaIdle
    /\ UiIdle
    /\ ResIdle
    /\ FrameIdle

\* calculate_grow_sizes up to and including the sort of the buffer
GrowBegin ==
    /\ bpc = "start"
    /\ remaining' = RemainingMain(box.inner, ksize, box.gap)
    /\ buffer' = SortByMain(MakeBuffer(box.kids, ksize))
    /\ bpc' = "loop"
    /\ UNCHANGED <<box, turn, ksize, koff, legacy>>
    /\ UNCHANGED <<treeVars, arenaVars, uiVars, resVars, frameVars>>

\* one iteration of the `while let` loop
GrowLoopIter ==
    /\ bpc = "loop"
    /\ LET r == GrowIter(buffer, remaining)
       IN  /\ buffer' = r.buf
           /\ remaining' = r.rem
           /\ bpc' = IF r.done THEN "write" ELSE "loop"
    /\ turn' = 1 - turn
    /\ UNCHANGED <<box, ksize, koff, legacy>>
    /\ UNCHANGED <<treeVars, arenaVars, uiVars, resVars, frameVars>>

\* `for entry in buffer { query.props.size = entry.size }`
GrowWriteBack ==
    /\ bpc = "write"
    /\ ksize' = WriteBack(buffer, ksize)
    /\ bpc' = "pos"
    /\ UNCHANGED <<box, turn, buffer, remaining, koff, legacy>>
    /\ UNCHANGED <<treeVars, arenaVars, uiVars, resVars, frameVars>>

\* calculate_positions for the children of the container
PlaceChildren(j) ==
    /\ bpc = "pos"
    /\ koff' = IF AlignPanics(j, Len(ksize))
               THEN [justify |-> j, panic |-> TRUE, off |-> <<>>]
               ELSE [justify |-> j, panic |-> FALSE,
                     off |-> ChildOffsets(box.inner, ksize, box.gap, j)]
    /\ bpc' = "done"
    /\ UNCHANGED <<box, turn, buffer, remaining, ksize, legacy>>
    /\ UNCHANGED <<treeVars, arenaVars, uiVars, resVars, frameVars>>

\* calculate_grow_sizes of ratatui-elemental on the same container and the
\* same children
LegacyGrowSizes(build) ==
    /\ bpc = "pos"
    /\ LET sizes == [i \in 1..Len(box.kids) |-> box.kids[i].size]
       IN  legacy' = LegacyLoop(box.kids, sizes,
                                RemainingMain(box.inner, sizes, box.gap), {}, build)
    /\ bpc' = "legacy"
    /\ UNCHANGED <<box, turn, buffer, remaining, ksize, koff>>
    /\ UNCHANGED <<treeVars, arenaVars, uiVars, resVars, frameVars>>

NextBox ==
    \/ GrowBegin
    \/ GrowLoopIter
    \/ GrowWriteBack
    \/ \E j \in Justify : PlaceChildren(j)
    \/ \E build \in Builds : LegacyGrowSizes(build)

SpecBox == InitBox /\ [][NextBox]_vars

\* the loop is a sequential program: an iteration that can run does run
SpecBoxFair == InitBox /\ [][NextBox]_vars /\ WF_vars(NextBox)

----------------------------------------------------------------------------
\* Spec: the element store under calculate_layout, render and despawn

\* shapes of the trees over Nodes: a chain 1 - 2 - 3 and a fan 1 - {2, 3}
Shapes ==
    { (1 :> <<2>>) @@ (2 :> <<3>>) @@ (3 :> <<>>),
      (1 :> <<2, 3>>) @@ (2 :> <<>>) @@ (3 :> <<>>) }

RootPolicies == {FixedP(2), FixedP(5), FitP}

KidPoliciesSet == {FixedP(3), FitP, GrowP}

Directions == {"Horizontal", "Vertical"}

\* padding, gap and MainJustify tried for the root
RootStyles ==
    {[pad |-> 0, gap |-> 0, justify |-> "Start"],
     [pad |-> 1, gap |-> 1, justify |-> "End"],
     [pad |-> 2, gap |-> 2, justify |-> "SpaceBetween"]}

\* the element builder: every attribute is present; what the tree does not
\* vary has the builder's default
MakeTree(shape, w, h, dir, style) ==
    [n \in Nodes |->
        [width     |-> w[n],
         height    |-> h[n],
         direction |-> IF n = Root THEN dir ELSE "Vertical",
         padding   |-> IF n = Root THEN UniformPad(style.pad) ELSE UniformPad(0),
         gap       |-> IF n = Root THEN style.gap ELSE 0,
         justify   |-> IF n = Root THEN style.justify ELSE "Start",
         children  |-> shape[n]]]

PolicyMaps ==
    {f \in [Nodes -> RootPolicies \cup KidPoliciesSet] :
        /\ f[Root] \in RootPolicies
        /\ \A n \in Nodes \ {Root} : f[n] \in KidPoliciesSet}

Init ==
    /\ \E shape \in Shapes, w \in PolicyMaps, h \in PolicyMaps, dir \in Directions,
          style \in RootStyles :
          tree = MakeTree(shape, w, h, dir, style)
    /\ live = Nodes
    /\ props = [n \in Nodes |-> FreshProps]
    /\ status = "none"
    /\ calls = 0
    /\ rstatus = "none"
    /\ drawn = <<>>
    /\ stripped = NoAttr
    /\ BoxIdle
    /\ ArenaIdle
    /\ UiIdle
    /\ ResIdle
    /\ FrameIdle

\* a call that hung or panicked never gives control back
Running == status \notin {"Hang", "Panic"} /\ rstatus # "panic"

\* ElementCtx::calculate_layout(root)
CalculateLayout ==
    /\ Running
    /\ calls < MaxCalls
    /\ LET r == CalculateLayoutOf(props)
       IN  /\ props' = r.props
           /\ status' = r.status
    /\ calls' = calls + 1
    /\ rstatus' = "none"
    /\ drawn' = <<>>
    /\ UNCHANGED <<tree, live, stripped>>
    /\ UNCHANGED <<boxVars, arenaVars, uiVars, resVars, frameVars>>

\* hecs World::despawn(n) through the DerefMut of ElementCtx: the entity goes,
\* the children list of its parent keeps the handle
Despawn(n) ==
    /\ Running
    /\ n \in live
    /\ Cardinality(Nodes \ live) < MaxDespawn
    /\ live' = live \ {n}
    /\ rstatus' = "none"
    /\ drawn' = <<>>
    /\ UNCHANGED <<tree, props, status, calls, stripped>>
    /\ UNCHANGED <<boxVars, arenaVars, uiVars, resVars, frameVars>>

\* ElementCtx::render(root, area, buf)
Render ==
    /\ Running
    /\ rstatus = "none"
    /\ LET r == RenderWalk(Root, ScreenArea, <<>>)
       IN  /\ drawn' = r.log
           /\ rstatus' = IF r.panic THEN "panic" ELSE "ok"
    /\ UNCHANGED <<tree, live, props, status, calls, stripped>>
    /\ UNCHANGED <<boxVars, arenaVars, uiVars, resVars, frameVars>>

Next ==
    \/ CalculateLayout
    \/ \E n \in Nodes : Despawn(n)
    \/ Render

Spec == Init /\ [][Next]_vars

\* SpecAttr: the same store over the trees whose non-root nodes share one size
\* policy, with one component taken off one node

InitAttr ==
    /\ \E shape \in Shapes, rp \in RootPolicies, kp \in KidPoliciesSet,
          dir \in Directions, style \in RootStyles :
          LET pol == [n \in Nodes |-> IF n = Root THEN rp ELSE kp]
          IN  tree = MakeTree(shape, pol, pol, dir, style)
    /\ live = Nodes
    /\ props = [n \in Nodes |-> FreshProps]
    /\ status = "none"
    /\ calls = 0
    /\ rstatus = "none"
    /\ drawn = <<>>
    /\ stripped = NoAttr
    /\ BoxIdle
    /\ ArenaIdle
    /\ UiIdle
    /\ ResIdle
    /\ FrameIdle

\* hecs World::remove_one::<A>(n) through the DerefMut of ElementCtx
RemoveAttr(n, a) ==
    /\ Running
    /\ n \in live
    /\ stripped = NoAttr
    /\ stripped' = [node |-> n, attr |-> a]
    /\ rstatus' = "none"
    /\ drawn' = <<>>
    /\ UNCHANGED <<tree, live, props, status, calls>>
    /\ UNCHANGED <<boxVars, arenaVars, uiVars, resVars, frameVars>>

NextAttr ==
    \/ CalculateLayout
    \/ \E n \in Nodes : Despawn(n)
    \/ Render
    \/ \E n \in Nodes, a \in Attrs : RemoveAttr(n, a)

SpecAttr == InitAttr /\ [][NextAttr]_vars

----------------------------------------------------------------------------
\* TypeArena (ratatui-elemental/src/typemap.rs)

MaxInserts == 4

None == [some |-> FALSE, val |-> 0]

Some(v) == [some |-> TRUE, val |-> v]

\* TypeSlot::occupied / TypeSlot::vacant
SlotOccupied(slot) == slot.version % 2 # 0

SlotVacant(slot) == slot.version % 2 = 0

OccupiedSlot(v) == [tag |-> "occupied", value |-> v, next_free |-> 0]

VacantSlot(n) == [tag |-> "vacant", value |-> 0, next_free |-> n]

\* TypeKey without the typeid
KeyOf(h) == [index |-> h.index, version |-> h.version]

\* the None arm of insert: push a fresh slot with version 1
ArenaPush(sl, cnt, nf, value) ==
    [slots     |-> Append(sl, [version |-> 1, u |-> OccupiedSlot(value)]),
     count     |-> cnt + 1,
     next_free |-> Len(sl) + 1,
     key       |-> [index |-> nf, version |-> 1]]

\* TypeArena::insert. `junk` is what the read of u.vacant yields when the slot
\* does not hold a VacantSlot
ArenaInsert(sl, cnt, nf, value, junk) ==
    IF nf < Len(sl)
    THEN LET slot == sl[nf + 1]
         IN  IF SlotOccupied(slot)
             THEN ArenaPush(sl, cnt, Len(sl), value)
             ELSE [slots     |-> [sl EXCEPT ![nf + 1] =
                                     [version |-> slot.version + 2,
                                      u |-> OccupiedSlot(value)]],
                   count     |-> cnt + 1,
                   next_free |-> IF slot.u.tag = "vacant"
                                 THEN slot.u.next_free ELSE junk,
                   key       |-> [index |-> nf, version |-> slot.version + 2]]
    ELSE ArenaPush(sl, cnt, nf, value)

\* remove that forgets `slot.version += 1`
ArenaRemove_KeepVersion(sl, cnt, nf, key) ==
    LET slot == sl[key.index + 1]
    IN  IF SlotVacant(slot)
        THEN [slots |-> sl, count |-> cnt, out |-> None]
        ELSE [slots |-> [sl EXCEPT ![key.index + 1] =
                            [version |-> slot.version, u |-> VacantSlot(nf)]],
              count |-> cnt - 1,
              out   |-> Some(slot.u.value)]

\* remove that forgets the `if slot.vacant() { return None }` guard
ArenaRemove_NoVacantCheck(sl, cnt, nf, key) ==
    LET slot == sl[key.index + 1]
    IN  [slots |-> [sl EXCEPT ![key.index + 1] =
                       [version |-> slot.version + 1, u |-> VacantSlot(nf)]],
         count |-> cnt - 1,
         out   |-> Some(slot.u.value)]

\* TypeArena::remove
ArenaRemove(sl, cnt, nf, key) ==
    LET slot == sl[key.index + 1]
    IN  IF SlotVacant(slot)
        THEN [slots |-> sl, count |-> cnt, out |-> None]
        ELSE [slots |-> [sl EXCEPT ![key.index + 1] =
                            [version |-> slot.version + 1, u |-> VacantSlot(nf)]],
              count |-> cnt - 1,
              out   |-> Some(slot.u.value)]

\* TypeArena::get
ArenaGet(sl, key) ==
    LET slot == sl[key.index + 1]
    IN  IF SlotVacant(slot) THEN None ELSE Some(slot.u.value)

\* TypeArena::get_widget: the version comes from ElWidget::key_version
ArenaGetWidget(sl, key) ==
    LET version == sl[key.index + 1].version
    IN  IF version % 2 = 0 THEN None ELSE Some(sl[key.index + 1].u.value)

InitArena ==
    /\ slots = <<>>
    /\ count = 0
    /\ next_free = 0
    /\ handles = <<>>
    /\ aret = [op |-> "none"]
    /\ TreeIdle
    /\ BoxIdle
    /\ UiIdle
    /\ ResIdle
    /\ FrameIdle

\* insert of a fresh payload; payloads are numbered in insertion order
Insert ==
    /\ Len(handles) < MaxInserts
    /\ \E junk \in 0..MaxInserts :
         LET value == Len(handles) + 1
             r     == ArenaInsert(slots, count, next_free, value, junk)
         IN  /\ slots' = r.slots
             /\ count' = r.count
             /\ next_free' = r.next_free
             /\ handles' = Append(handles,
                                  [index |-> r.key.index, version |-> r.key.version,
                                   val |-> value, removed |-> FALSE])
             /\ aret' = [op |-> "insert", key |-> r.key, out |-> None]
    /\ UNCHANGED <<treeVars, boxVars, uiVars, resVars, frameVars>>

\* remove with any key handed out so far, stale ones included
Remove(i) ==
    /\ i \in 1..Len(handles)
    /\ LET key == KeyOf(handles[i])
           r   == ArenaRemove(slots, count, next_free, key)
       IN  /\ slots' = r.slots
           /\ count' = r.count
           /\ handles' = [handles EXCEPT ![i].removed = @ \/ r.out.some]
           /\ aret' = [op |-> "remove", key |-> key, out |-> r.out]
    /\ UNCHANGED next_free
    /\ UNCHANGED <<treeVars, boxVars, uiVars, resVars, frameVars>>

\* get with any key handed out so far
Get(i) ==
    /\ i \in 1..Len(handles)
    /\ aret' = [op |-> "get", key |-> KeyOf(handles[i]),
                out |-> ArenaGet(slots, KeyOf(handles[i]))]
    /\ UNCHANGED <<slots, count, next_free, handles>>
    /\ UNCHANGED <<treeVars, boxVars, uiVars, resVars, frameVars>>

\* get_widget with any key handed out so far
GetWidget(i) ==
    /\ i \in 1..Len(handles)
    /\ aret' = [op |-> "get_widget", key |-> KeyOf(handles[i]),
                out |-> ArenaGetWidget(slots, KeyOf(handles[i]))]
    /\ UNCHANGED <<slots, count, next_free, handles>>
    /\ UNCHANGED <<treeVars, boxVars, uiVars, resVars, frameVars>>

NextArena ==
    \/ Insert
    \/ \E i \in 1..MaxInserts : Remove(i)
    \/ \E i \in 1..MaxInserts : Get(i)
    \/ \E i \in 1..MaxInserts : GetWidget(i)

SpecArena == InitArena /\ [][NextArena]_vars

----------------------------------------------------------------------------
\* spawn_ui and process_ui_system (mana-tui-elemental/src/ui.rs), and
\* BlockExt::commit (prelude.rs)

MaxUiNodes == 4

\* elements made with the element builder after spawn_ui
MaxCreated == 1

\* length of the list handed to `children`
MaxList == 3

Sides == {"left", "right", "top", "bottom"}

\* builder trees of up to MaxUiNodes nodes: node 1 is the root builder and
\* p[i] is the builder that holds builder i among its ChildrenBuilders
UiShapes ==
    UNION {{p \in [2..n -> 1..n] : \A i \in 2..n : p[i] < i} : n \in 1..MaxUiNodes}

\* Block::inner of an untitled block without padding of its own (ratatui)
BlockInner(borders, area) ==
    LET l == IF "left" \in borders THEN 1 ELSE 0
        r == IF "right" \in borders THEN 1 ELSE 0
        t == IF "top" \in borders THEN 1 ELSE 0
        b == IF "bottom" \in borders THEN 1 ELSE 0
    IN  [x      |-> MinOf(area.x + l, area.x + area.width),
         y      |-> MinOf(area.y + t, area.y + area.height),
         width  |-> SatSub(SatSub(area.width, l), r),
         height |-> SatSub(SatSub(area.height, t), b)]

TestArea == [x |-> 0, y |-> 0, width |-> 2, height |-> 2]

\* the padding BlockExt::commit derives from the block
CommitPadding(borders) ==
    LET inner_area == BlockInner(borders, TestArea)
    IN  [left   |-> inner_area.x - TestArea.x,
         top    |-> inner_area.y - TestArea.y,
         right  |-> SatSub(TestArea.height - inner_area.height, 1),
         bottom |-> SatSub(TestArea.height - inner_area.height, 1)]

\* the padding process_ui_system gives a Block that has no Padding
DefaultBlockPadding(borders) ==
    LET inner_area == BlockInner(borders, TestArea)
    IN  [left   |-> inner_area.x - TestArea.x,
         top    |-> inner_area.y - TestArea.y,
         right  |-> SatSub(TestArea.height - inner_area.height, 1),
         bottom |-> SatSub(TestArea.height - inner_area.height, 1)]

Unset == [set |-> FALSE, ids |-> <<>>]

NoPadding == [set |-> FALSE, val |-> UniformPad(0)]

\* ui(Block).with(..).children(..): the builders of a tree of shape p, each a
\* Block with the given borders, with Padding::uniform(0) when `explicit`
MakeUi(p, borders, explicit) ==
    [i \in 1..(Cardinality(DOMAIN p) + 1) |->
        [kids    |-> SetToSeq({c \in DOMAIN p : p[c] = i}),
         borders |-> borders,
         padding |-> IF explicit THEN [set |-> TRUE, val |-> UniformPad(0)]
                     ELSE NoPadding]]

\* EntityBuilder::build of builder b: the components of the entity to spawn
BuiltEntity(b) ==
    [from     |-> b,
     borders  |-> ui[b].borders,
     builders |-> [set |-> ui[b].kids # <<>>, ids |-> ui[b].kids],
     children |-> Unset,
     given    |-> <<>>,
     padding  |-> ui[b].padding]

\* a map over the builders that spawns every one of them twice
SpawnBuilders_Twice(ids) ==
    [k \in 1..Len(ids) |-> BuiltEntity(ids[k])] \o [k \in 1..Len(ids) |-> BuiltEntity(ids[k])]

\* builders.iter_mut().map(|builder| world.spawn(builder.build()))
SpawnBuilders(ids) ==
    [k \in 1..Len(ids) |-> BuiltEntity(ids[k])]

\* a queue made of the entities that carry no ChildrenBuilders
WithBuilders_Leaves(w) == SetToSeq({e \in 1..Len(w) : ~w[e].builders.set})

\* the entities of w that carry ChildrenBuilders, in query order
WithBuilders(w) == SetToSeq({e \in 1..Len(w) : w[e].builders.set})

InitUi ==
    /\ \E p \in UiShapes, borders \in SUBSET Sides, explicit \in BOOLEAN :
          ui = MakeUi(p, borders, explicit)
    /\ world = <<>>
    /\ to_process = <<>>
    /\ upc = "build"
    /\ TreeIdle
    /\ BoxIdle
    /\ ArenaIdle
    /\ ResIdle
    /\ FrameIdle

\* spawn_ui: the root is spawned, process_ui_system collects its queue
SpawnUiBegin ==
    /\ upc = "build"
    /\ world' = Append(world, BuiltEntity(1))
    /\ to_process' = WithBuilders(world')
    /\ upc' = "queue"
    /\ UNCHANGED ui
    /\ UNCHANGED <<treeVars, boxVars, arenaVars, resVars, frameVars>>

\* one iteration of `while let Some(node) = to_process.pop_front()`
ProcessNode ==
    /\ upc = "queue"
    /\ to_process # <<>>
    /\ LET node == Head(to_process)
       IN  IF world[node].builders.set
           THEN LET spawned == SpawnBuilders(world[node].builders.ids)
                    all     == world \o spawned
                    kids    == [k \in 1..Len(spawned) |-> Len(world) + k]
                IN  /\ world' = [all EXCEPT
                                   ![node].builders = Unset,
                                   ![node].children = [set |-> TRUE, ids |-> kids]]
                    /\ to_process' = Tail(to_process)
                           \o SelectSeq(kids, LAMBDA e : all[e].builders.set)
           ELSE /\ world' = world
                /\ to_process' = Tail(to_process)
    /\ UNCHANGED <<ui, upc>>
    /\ UNCHANGED <<treeVars, boxVars, arenaVars, resVars, frameVars>>

\* the rest of process_ui_system once the queue is empty: default padding of
\* the blocks, then the defaults of every element
ProcessDefaults ==
    /\ upc = "queue"
    /\ to_process = <<>>
    /\ world' = [e \in 1..Len(world) |->
                    [world[e] EXCEPT
                        !.padding  = IF @.set THEN @
                                     ELSE [set |-> TRUE,
                                           val |-> DefaultBlockPadding(world[e].borders)],
                        !.children = IF @.set THEN @ ELSE [set |-> TRUE, ids |-> <<>>]]]
    /\ upc' = "done"
    /\ UNCHANGED <<ui, to_process>>
    /\ UNCHANGED <<treeVars, boxVars, arenaVars, resVars, frameVars>>

\* the entities made by the element builder, not by spawn_ui
Created == {e \in 1..Len(world) : world[e].from = 0}

\* block().borders(..).commit().create(ctx): one more element, built by the
\* element builder with the padding commit derived
BlockCommit(borders) ==
    /\ upc = "done"
    /\ Cardinality(Created) < MaxCreated
    /\ world' = Append(world,
                    [from     |-> 0,
                     borders  |-> borders,
                     builders |-> Unset,
                     children |-> [set |-> TRUE, ids |-> <<>>],
                     given    |-> <<>>,
                     padding  |-> [set |-> TRUE, val |-> CommitPadding(borders)]])
    /\ UNCHANGED <<ui, to_process, upc>>
    /\ UNCHANGED <<treeVars, boxVars, arenaVars, resVars, frameVars>>

\* Vec::dedup: of every run of equal consecutive elements the first stays
RECURSIVE Dedup(_)
Dedup(s) ==
    IF Len(s) <= 1 THEN s
    ELSE IF s[1] = s[2] THEN Dedup(Tail(s))
    ELSE <<s[1]>> \o Dedup(Tail(s))

\* the lists of handles handed to `children`: up to MaxList handles of the
\* first two entities of the world
ChildLists ==
    UNION {[1..n -> {e \in 1..Len(world) : e <= 2}] : n \in 0..MaxList}

\* element(block()).children(list).create(ctx)
ElementCreate(list) ==
    /\ upc = "done"
    /\ Cardinality(Created) < MaxCreated
    /\ world' = Append(world,
                    [from     |-> 0,
                     borders  |-> {},
                     builders |-> Unset,
                     children |-> [set |-> TRUE, ids |-> Dedup(list)],
                     given    |-> list,
                     padding  |-> [set |-> TRUE, val |-> UniformPad(0)]])
    /\ UNCHANGED <<ui, to_process, upc>>
    /\ UNCHANGED <<treeVars, boxVars, arenaVars, resVars, frameVars>>

NextUi ==
    \/ SpawnUiBegin
    \/ ProcessNode
    \/ ProcessDefaults
    \/ \E borders \in SUBSET Sides : BlockCommit(borders)
    \/ \E list \in ChildLists : ElementCreate(list)

SpecUi == InitUi /\ [][NextUi]_vars

----------------------------------------------------------------------------
\* Resources (mana-tui-utils/src/resource.rs)

\* calls of insert_resource, directly or through the update operations
MaxResInserts == 3

ResTypes == {"A", "B"}

ResValues == {0, 1}

\* the live Res<T> marker entities of the world, in query order
LiveRes(w, ty) ==
    SetToSeq({e \in 1..Len(w) : w[e].alive /\ w[e].kind = "res" /\ w[e].ty = ty})

\* a lookup that takes the first marker and does not look for a second one
GetResEntity_First(w, ty) ==
    LET rs == LiveRes(w, ty)
    IN  IF rs = <<>> THEN [res |-> "err", res_entity |-> 0, entity |-> 0]
        ELSE [res |-> "ok", res_entity |-> rs[1], entity |-> w[rs[1]].ref]

\* Res::get_res_entity
GetResEntity(w, ty) ==
    LET rs == LiveRes(w, ty)
    IN  IF rs = <<>> THEN [res |-> "err", res_entity |-> 0, entity |-> 0]
        ELSE IF Len(rs) > 1 THEN [res |-> "panic", res_entity |-> 0, entity |-> 0]
        ELSE [res |-> "ok", res_entity |-> rs[1], entity |-> w[rs[1]].ref]

\* Res::query: get_entity, then world.get::<T>(entity)
ResQuery(w, ty) ==
    LET g == GetResEntity(w, ty)
    IN  IF g.res # "ok" THEN [res |-> g.res, entity |-> 0, val |-> 0]
        ELSE IF ~w[g.entity].alive THEN [res |-> "err", entity |-> 0, val |-> 0]
        ELSE [res |-> "ok", entity |-> g.entity, val |-> w[g.entity].val]

\* insert_resource: the value entity, the Res marker, then
\* get_resource::<&mut T>().unwrap()
InsertResourceOf(w, ty, v) ==
    LET w1 == w \o << [kind |-> "val", ty |-> ty, val |-> v, ref |-> 0, alive |-> TRUE],
                      [kind |-> "res", ty |-> ty, val |-> 0, ref |-> Len(w) + 1,
                       alive |-> TRUE] >>
    IN  [world |-> w1, res |-> IF ResQuery(w1, ty).res = "ok" THEN "ok" ELSE "panic"]

\* World::despawn of the value entity and of its marker
DespawnPair(w, g) ==
    [e \in 1..Len(w) |->
        IF e \in {g.entity, g.res_entity} THEN [w[e] EXCEPT !.alive = FALSE] ELSE w[e]]

\* room for one more insert_resource
CanInsert == Len(rworld) < 2 * MaxResInserts

InitRes ==
    /\ rworld = <<>>
    /\ rret = [op |-> "none"]
    /\ TreeIdle
    /\ BoxIdle
    /\ ArenaIdle
    /\ UiIdle
    /\ FrameIdle

\* world.insert_resource(value)
InsertResource(ty, v) ==
    /\ CanInsert
    /\ LET r == InsertResourceOf(rworld, ty, v)
       IN  /\ rworld' = r.world
           /\ rret' = [op |-> "insert", ty |-> ty, val |-> v, out |-> r.res]
    /\ UNCHANGED <<treeVars, boxVars, arenaVars, uiVars, frameVars>>

\* world.get_resource::<&T>()
GetResource(ty) ==
    /\ LET q == ResQuery(rworld, ty)
       IN  rret' = [op |-> "get", ty |-> ty, val |-> q.val, out |-> q.res]
    /\ UNCHANGED rworld
    /\ UNCHANGED <<treeVars, boxVars, arenaVars, uiVars, frameVars>>

\* *world.get_resource::<&mut T>()? = v
MutateResource(ty, v) ==
    /\ LET q == ResQuery(rworld, ty)
       IN  /\ rworld' = IF q.res = "ok" THEN [rworld EXCEPT ![q.entity].val = v]
                        ELSE rworld
           /\ rret' = [op |-> "mutate", ty |-> ty, val |-> v, out |-> q.res]
    /\ UNCHANGED <<treeVars, boxVars, arenaVars, uiVars, frameVars>>

\* world.try_update_resource(value)
TryUpdateResource(ty, v) ==
    /\ CanInsert
    /\ LET g == GetResEntity(rworld, ty)
       IN  IF g.res # "ok"
           THEN /\ rworld' = rworld
                /\ rret' = [op |-> "try_update", ty |-> ty, val |-> v, out |-> g.res]
           ELSE LET r == InsertResourceOf(DespawnPair(rworld, g), ty, v)
                IN  /\ rworld' = r.world
                    /\ rret' = [op |-> "try_update", ty |-> ty, val |-> v, out |-> r.res]
    /\ UNCHANGED <<treeVars, boxVars, arenaVars, uiVars, frameVars>>

\* world.insert_or_update_resource(value)
InsertOrUpdateResource(ty, v) ==
    /\ CanInsert
    /\ LET g == GetResEntity(rworld, ty)
       IN  IF g.res = "panic"
           THEN /\ rworld' = rworld
                /\ rret' = [op |-> "insert_or_update", ty |-> ty, val |-> v,
                            out |-> "panic"]
           ELSE LET r == InsertResourceOf(
                            IF g.res = "ok" THEN DespawnPair(rworld, g) ELSE rworld, ty, v)
                IN  /\ rworld' = r.world
                    /\ rret' = [op |-> "insert_or_update", ty |-> ty, val |-> v,
                                out |-> r.res]
    /\ UNCHANGED <<treeVars, boxVars, arenaVars, uiVars, frameVars>>

\* world.get_or_insert_resource_with(|_| value)
GetOrInsertResourceWith(ty, v) ==
    /\ CanInsert
    /\ LET g == GetResEntity(rworld, ty)
       IN  IF g.res = "panic"
           THEN /\ rworld' = rworld
                /\ rret' = [op |-> "get_or_insert", ty |-> ty, val |-> 0, out |-> "panic"]
           ELSE IF g.res = "err"
           THEN LET r == InsertResourceOf(rworld, ty, v)
                IN  /\ rworld' = r.world
                    /\ rret' = [op |-> "get_or_insert", ty |-> ty,
                                val |-> ResQuery(r.world, ty).val, out |-> r.res]
           ELSE /\ rworld' = rworld
                /\ rret' = [op |-> "get_or_insert", ty |-> ty,
                            val |-> rworld[g.entity].val,
                            out |-> IF rworld[g.entity].alive THEN "ok" ELSE "panic"]
    /\ UNCHANGED <<treeVars, boxVars, arenaVars, uiVars, frameVars>>

NextRes ==
    \/ \E ty \in ResTypes, v \in ResValues : InsertResource(ty, v)
    \/ \E ty \in ResTypes : GetResource(ty)
    \/ \E ty \in ResTypes, v \in ResValues : MutateResource(ty, v)
    \/ \E ty \in ResTypes, v \in ResValues : TryUpdateResource(ty, v)
    \/ \E ty \in ResTypes, v \in ResValues : InsertOrUpdateResource(ty, v)
    \/ \E ty \in ResTypes, v \in ResValues : GetOrInsertResourceWith(ty, v)

SpecRes == InitRes /\ [][NextRes]_vars

----------------------------------------------------------------------------
\* The runtime of mana-tui-potion and its per-frame render (src/mana-tui-potion/src/lib.rs)

\* messages taken off the stream
MaxMsgs == 3

\* what calculate_layout does in the closure handed to terminal.draw: it
\* returns Ok or Err, or it does not return (a panic or a loop without end)
LayoutResults == {"Ok", "Err", "Abort"}

Step(name, res) == [step |-> name, res |-> res]

\* messages taken so far
Msgs == Cardinality({i \in 1..Len(flog) : flog[i].step \in {"app", "term"}})

\* prev_root is Some once a frame has been rendered
HasPrevRoot == \E i \in 1..Len(flog) : flog[i].step = "spawn_ui"

\* a closure that goes on to paint whatever calculate_layout returned
AfterLayout_NoReturn(r) == IF r = "Abort" THEN "dead" ELSE "walk"

\* `if let Err(err) = result { tracing::error!(..); return; }`
AfterLayout(r) ==
    IF r = "Ok" THEN "walk" ELSE IF r = "Err" THEN "flush" ELSE "dead"

InitFrame ==
    /\ fpc = "wait"
    /\ flog = <<>>
    /\ flayout = "none"
    /\ TreeIdle
    /\ BoxIdle
    /\ ArenaIdle
    /\ UiIdle
    /\ ResIdle

\* RuntimeMsg::App(msg) if quit_signal(&model, &msg) => Ok(())
RuntimeQuit ==
    /\ fpc = "wait"
    /\ fpc' = "quit"
    /\ UNCHANGED <<flog, flayout>>
    /\ UNCHANGED <<treeVars, boxVars, arenaVars, uiVars, resVars>>

\* RuntimeMsg::App(msg): update, view, despawn_ui of the previous root; the
\* call of render comes next
RuntimeAppMsg ==
    /\ fpc = "wait"
    /\ Msgs < MaxMsgs
    /\ flog' = flog \o <<Step("app", "-")>>
                    \o (IF HasPrevRoot THEN <<Step("despawn_ui", "-")>> ELSE <<>>)
    /\ fpc' = "render"
    /\ flayout' = "none"
    /\ UNCHANGED <<treeVars, boxVars, arenaVars, uiVars, resVars>>

\* RuntimeMsg::Term(event): propagate_event, then the runtime goes on with the
\* same prev_root, or returns the error of propagate_event
RuntimeTermEvent(ok) ==
    /\ fpc = "wait"
    /\ Msgs < MaxMsgs
    /\ flog' = Append(flog, Step("term", IF ok THEN "Ok" ELSE "Err"))
    /\ fpc' = IF ok THEN "wait" ELSE "quit"
    /\ UNCHANGED flayout
    /\ UNCHANGED <<treeVars, boxVars, arenaVars, uiVars, resVars>>

\* render: let root = ctx.spawn_ui(view)
RenderSpawnUi ==
    /\ fpc = "render"
    /\ flog' = Append(flog, Step("spawn_ui", "-"))
    /\ fpc' = "draw"
    /\ UNCHANGED flayout
    /\ UNCHANGED <<treeVars, boxVars, arenaVars, uiVars, resVars>>

\* terminal.draw returns Err without having called the closure
DrawFailsEarly ==
    /\ fpc = "draw"
    /\ flog' = Append(flog, Step("draw", "Err"))
    /\ fpc' = "wait"
    /\ UNCHANGED flayout
    /\ UNCHANGED <<treeVars, boxVars, arenaVars, uiVars, resVars>>

\* the closure: ctx.el_ctx.calculate_layout(root, frame.area())
DrawCalculateLayout(r) ==
    /\ fpc = "draw"
    /\ flog' = Append(flog, Step("calculate_layout", r))
    /\ flayout' = r
    /\ fpc' = AfterLayout(r)
    /\ UNCHANGED <<treeVars, boxVars, arenaVars, uiVars, resVars>>

\* the closure: ctx.el_ctx.render(root, frame.area(), frame.buffer_mut())
DrawRenderWalk ==
    /\ fpc = "walk"
    /\ flog' = Append(flog, Step("render", "-"))
    /\ fpc' = "stack"
    /\ UNCHANGED flayout
    /\ UNCHANGED <<treeVars, boxVars, arenaVars, uiVars, resVars>>

\* the closure: focus::generate_ui_stack(&mut ctx.el_ctx, root)
DrawGenerateUiStack ==
    /\ fpc = "stack"
    /\ flog' = Append(flog, Step("generate_ui_stack", "-"))
    /\ fpc' = "flush"
    /\ UNCHANGED flayout
    /\ UNCHANGED <<treeVars, boxVars, arenaVars, uiVars, resVars>>

\* the closure has returned: terminal.draw flushes and returns Ok or Err, and
\* render returns the root
DrawReturns(ok) ==
    /\ fpc = "flush"
    /\ flog' = Append(flog, Step("draw", IF ok THEN "Ok" ELSE "Err"))
    /\ fpc' = "wait"
    /\ UNCHANGED flayout
    /\ UNCHANGED <<treeVars, boxVars, arenaVars, uiVars, resVars>>

NextFrame ==
    \/ RuntimeQuit
    \/ RuntimeAppMsg
    \/ \E ok \in BOOLEAN : RuntimeTermEvent(ok)
    \/ RenderSpawnUi
    \/ DrawFailsEarly
    \/ \E r \in LayoutResults : DrawCalculateLayout(r)
    \/ DrawRenderWalk
    \/ DrawGenerateUiStack
    \/ \E ok \in BOOLEAN : DrawReturns(ok)

SpecFrame == InitFrame /\ [][NextFrame]_vars

----------------------------------------------------------------------------
\* Properties of the growth pass (SpecBox)

HasGrowKid == \E i \in 1..Len(box.kids) : box.kids[i].is_grow

GrowPassed == bpc \in {"pos", "done"}

\* the children fit into the container with their intrinsic sizes
KidsFit ==
    SumSeq([i \in 1..Len(box.kids) |-> box.kids[i].size])
        + GapTotal(Len(box.kids), box.gap) <= box.inner

\* C1: after calculate_grow_sizes has processed a container with at least one
\* Grow child, the children's main-axis sizes plus the gaps between them add
\* up to the container's inner main-axis size exactly.  Stated for the
\* containers whose children fit with their intrinsic sizes, the only ones
\* where the sum can be met.
C1_GrowFillsInner ==
    (GrowPassed /\ HasGrowKid /\ KidsFit) =>
        SumSeq(ksize) + GapTotal(Len(ksize), box.gap) = box.inner

\* C2: the `while let` growth loop of calculate_grow_sizes exits for every
\* list of children.
C2_GrowLoopExits == <>(bpc \notin {"start", "loop"})

----------------------------------------------------------------------------
\* Properties of TypeArena (SpecArena)

Removed == {i \in 1..Len(handles) : handles[i].removed}

VacantIndexes == {i \in 1..Len(slots) : SlotVacant(slots[i])}

\* C7: a lookup (get / get_widget) with the handle of a removed entry returns
\* None, and any lookup that returns a payload returns the payload the handle
\* was issued for, never that of an entry inserted later.
C7_StaleHandleSeesNothing ==
    /\ \A i \in Removed :
          /\ ArenaGet(slots, KeyOf(handles[i])) = None
          /\ ArenaGetWidget(slots, KeyOf(handles[i])) = None
    /\ \A i \in 1..Len(handles) :
          LET out == ArenaGet(slots, KeyOf(handles[i]))
          IN  out.some => out.val = handles[i].val

\* C7 witness: entry A was removed, entry B was inserted after that and is
\* still there, and the last operation was a lookup with A's handle.
C7_Witness ==
    \E i, j \in 1..Len(handles) :
        /\ i < j
        /\ handles[i].removed
        /\ ~handles[j].removed
        /\ Len(slots) >= j
        /\ aret.op \in {"get", "get_widget"}
        /\ aret.key = KeyOf(handles[i])
        /\ aret.out = None

\* C8: after a successful remove(k) the next insert returns a handle with the
\* slot index of k and another generation and the slot vector does not grow;
\* insert appends a slot only when no freed slot exists.
C8_InsertReusesFreedSlot ==
    [][(Len(handles') = Len(handles) + 1) =>
          /\ (aret.op = "remove" /\ aret.out.some) =>
                /\ aret'.key.index = aret.key.index
                /\ aret'.key.version # aret.key.version
                /\ Len(slots') = Len(slots)
          /\ (Len(slots') > Len(slots)) => VacantIndexes = {}]_vars

\* C9: the first remove of a live handle returns Some(payload) and changes the
\* version stored in the slot; a later remove with the same handle returns
\* None and leaves slot versions, count and free-list head as they were.
C9_RemoveIdempotent ==
    [][(aret'.op = "remove") =>
          (\A i \in 1..Len(handles) :
                KeyOf(handles[i]) = aret'.key =>
                   IF handles[i].removed
                   THEN /\ aret'.out = None
                        /\ slots' = slots
                        /\ count' = count
                        /\ next_free' = next_free
                   ELSE /\ aret'.out = Some(handles[i].val)
                        /\ slots'[aret'.key.index + 1].version
                              # slots[aret'.key.index + 1].version
                        /\ count' = count - 1)]_vars

\* C9 witness: a handle was removed and a second remove with it returned None.
C9_Witness ==
    /\ aret.op = "remove"
    /\ aret.out = None
    /\ \E i \in Removed : KeyOf(handles[i]) = aret.key

----------------------------------------------------------------------------
\* Properties of calculate_positions (SpecBox)

\* C10: with inner main-axis size 24, no gap and three children of size 4 the
\* children are placed at 0,4,8 (Start), 12,16,20 (End), 6,10,14 (Center) and
\* 0,10,20 (SpaceBetween); in general the leading offset is 0 for Start,
\* remaining/2 for Center, remaining for End and 0 for SpaceBetween, whose
\* gaps each get remaining/(N-1) extra (and the first remaining mod (N-1) of
\* them the indivisible units, one each); Start, Center and End add nothing
\* between children.
C10_JustifyOffsets ==
    (bpc = "done" /\ ~koff.panic) =>
        LET n    == Len(ksize)
            j    == koff.justify
            off  == koff.off
            rem  == SatSub(box.inner, SumSeq(ksize) + SatSub(n, 1) * box.gap)
            extra(i) == off[i + 1] - (off[i] + ksize[i] + box.gap)
        IN  /\ (box.inner = 24 /\ box.gap = 0 /\ ksize = <<4, 4, 4>>) =>
                 /\ j = "Start" => off = <<0, 4, 8>>
                 /\ j = "End" => off = <<12, 16, 20>>
                 /\ j = "Center" => off = <<6, 10, 14>>
                 /\ j = "SpaceBetween" => off = <<0, 10, 20>>
            /\ Len(off) = n
            /\ (n >= 1 /\ j = "Start") => off[1] = 0
            /\ (n >= 1 /\ j = "Center") => off[1] = rem \div 2
            /\ (n >= 1 /\ j = "End") => off[1] = rem
            /\ (n >= 1 /\ j = "SpaceBetween") => off[1] = 0
            /\ j \in {"Start", "Center", "End"} =>
                 \A i \in 1..(n - 1) : extra(i) = 0
            /\ (n >= 2 /\ j = "SpaceBetween") =>
                 \A i \in 1..(n - 1) :
                    extra(i) = rem \div (n - 1)
                                 + (IF i <= rem % (n - 1) THEN 1 ELSE 0)

\* C10 witness: the container of 24 with three children of 4 was placed under
\* SpaceBetween.
C10_Witness ==
    /\ bpc = "done"
    /\ box.inner = 24 /\ box.gap = 0 /\ ksize = <<4, 4, 4>>
    /\ koff.justify = "SpaceBetween"
    /\ koff.off = <<0, 10, 20>>

----------------------------------------------------------------------------
\* Properties of the element store (Spec)

\* the parent of a node other than the root
Parent(n) == CHOOSE p \in Nodes : \E i \in 1..Len(tree[p].children) : tree[p].children[i] = n

\* the node is live and so is every node between it and the root
RECURSIVE LiveReachable(_)
LiveReachable(n) ==
    /\ n \in live
    /\ n = Root \/ LiveReachable(Parent(n))

DrawnNodes == {drawn[i].node : i \in 1..Len(drawn)}

C4_LayoutIdempotent ==
    [][(calls = 1 /\ calls' = 2 /\ status = "Ok" /\ status' = "Ok" /\ live' = Nodes)
          => props' = props]_vars

\* C5: with a handle in the tree that is not a live entity calculate_layout
\* returns Err, and no position is assigned: every node keeps the position it
\* had before the call.
C5_DeadHandleFailsFast ==
    [][(calls' = calls + 1 /\ live # Nodes) =>
          /\ status' = "Err"
          /\ \A n \in Nodes : props'[n].position = props[n].position]_vars

\* C5 witness: a layout had placed the nodes, a node was despawned and the
\* next call returned Err.
C5_Witness ==
    /\ status = "Err"
    /\ calls = 2
    /\ live # Nodes
    /\ \E n \in Nodes : props[n].position # Vec(0, 0)

\* C6: render completes when a handle met during the walk is not live; that
\* node draws nothing and every node still reachable is drawn.
C6_RenderTolerates ==
    rstatus # "none" =>
        /\ rstatus = "ok"
        /\ \A n \in Nodes : LiveReachable(n) => n \in DrawnNodes
        /\ DrawnNodes \subseteq live

\* C11: with 0 or 1 child calculate_positions completes under SpaceBetween,
\* SpaceAround and SpaceEvenly and places the children as Start does (leading
\* offset 0).
C11_FewChildrenLikeStart ==
    (bpc = "done" /\ Len(ksize) <= 1
        /\ koff.justify \in {"SpaceBetween", "SpaceAround", "SpaceEvenly"}) =>
        /\ ~koff.panic
        /\ koff.off = ChildOffsets(box.inner, ksize, box.gap, "Start")

----------------------------------------------------------------------------
\* Properties of the growth pass, continued (SpecBox)

\* every child of the container is Grow and all have the same intrinsic size
AllEqualGrow ==
    /\ Len(box.kids) >= 1
    /\ \A i \in 1..Len(box.kids) :
          box.kids[i].is_grow /\ box.kids[i].size = box.kids[1].size

\* C12: for a container of k >= 1 Grow children of equal intrinsic size s and
\* remaining space R, child i (0-based, children order) ends with main-axis
\* size s + R div k + (1 if i < R mod k, else 0); inner size 10 with three
\* empty Grow children gives 4, 3, 3.
C12_EqualGrowShares ==
    (GrowPassed /\ AllEqualGrow) =>
        LET k == Len(box.kids)
            s == box.kids[1].size
            R == SatSub(SatSub(box.inner, k * s), (k - 1) * box.gap)
        IN  /\ \A i \in 1..k :
                  ksize[i] = s + (R \div k) + (IF i - 1 < R % k THEN 1 ELSE 0)
            /\ (box.inner = 10 /\ box.gap = 0 /\ k = 3 /\ s = 0) => ksize = <<4, 3, 3>>

\* C12 witness: the container of inner size 10 with three empty Grow children
\* went through the growth pass and its children are 4, 3, 3.
C12_Witness ==
    /\ GrowPassed
    /\ AllEqualGrow
    /\ box.inner = 10 /\ box.gap = 0
    /\ Len(box.kids) = 3 /\ box.kids[1].size = 0
    /\ ksize = <<4, 3, 3>>

----------------------------------------------------------------------------
\* Properties of the element store, continued (Spec)

\* cross-axis size of node n inside its parent
CrossSizeOf(n) == Axify(props[n].size, tree[Parent(n)].direction).cross

\* inner cross-axis size of the parent of node n: size minus padding
ParentInnerCross(n) ==
    LET p == Parent(n)
    IN  Axify(InnerSize(props[p].size, tree[p].padding), tree[p].direction).cross

\* C13: after calculate_layout returned Ok every non-root node whose
\* cross-axis policy (relative to its parent's direction) is Grow has the
\* parent's inner cross-axis size as its cross-axis size.
C13_CrossGrowFillsParent ==
    status = "Ok" =>
        \A n \in Nodes \ {Root} :
            IsGrow(CrossPolicy(tree[Parent(n)].direction, tree[n])) =>
                CrossSizeOf(n) = ParentInnerCross(n)

\* C13 witness: a layout returned Ok with a cross-axis Grow child that fills
\* the inner cross size of a padded parent.
C13_Witness ==
    /\ status = "Ok"
    /\ \E n \in Nodes \ {Root} :
          /\ IsGrow(CrossPolicy(tree[Parent(n)].direction, tree[n]))
          /\ tree[Parent(n)].padding.left = 1
          /\ CrossSizeOf(n) = 3
          /\ ParentInnerCross(n) = 3

----------------------------------------------------------------------------
\* Properties of calculate_positions, continued (SpecBox)

\* C14: after calculate_positions every child starts on the main axis at or
\* behind the end of the child before it (position + size), under every
\* Justify policy, gap and distribution of the remainder.
C14_ChildrenDoNotOverlap ==
    (bpc = "done" /\ ~koff.panic) =>
        \A i \in 1..(Len(ksize) - 1) :
            koff.off[i + 1] >= koff.off[i] + ksize[i]

\* C14 witness: three children of positive size were placed under SpaceAround
\* with a remainder to hand out, the second one behind the end of the first.
C14_Witness ==
    /\ bpc = "done"
    /\ koff.justify = "SpaceAround"
    /\ Len(ksize) = 3
    /\ \A i \in 1..3 : ksize[i] > 0
    /\ PosRemaining(box.inner, ksize, box.gap) % 6 # 0
    /\ koff.off[2] > koff.off[1] + ksize[1]
    /\ koff.off[3] >= koff.off[2] + ksize[2]

\* remaining main-axis space of node n as calculate_grow_sizes and
\* calculate_positions compute it from the sizes in the store
InnerMainOf(n) ==
    Axify(InnerSize(props[n].size, tree[n].padding), tree[n].direction).main

GrowRemainingOf(n) ==
    RemainingMain(InnerMainOf(n),
                  KidMainSizes(tree[n].children, tree[n].direction, props), tree[n].gap)

PosRemainingOf(n) ==
    PosRemaining(ShrinkAxis(Axify(props[n].size, tree[n].direction),
                            tree[n].padding, tree[n].direction).main,
                 KidMainSizes(tree[n].children, tree[n].direction, props), tree[n].gap)

\* padding, gaps or children of node n ask for more than the node has
Oversubscribed(n) ==
    \/ tree[n].padding.left + tree[n].padding.right > props[n].size.x
    \/ GapTotal(Len(tree[n].children), tree[n].gap) > InnerMainOf(n)
    \/ SumSeq(KidMainSizes(tree[n].children, tree[n].direction, props)) > InnerMainOf(n)

\* C15: the subtractions of the three passes saturate at zero: when
\* calculate_layout has returned, every size and position is a natural number,
\* the inner size of a node is between 0 and its size, the remaining space of
\* both later passes is between 0 and the inner size, and a child is never
\* placed in front of its parent's origin, also where padding, gaps or
\* children exceed the space there is.
C15_SubtractionsSaturate ==
    status \in {"Ok", "Err"} =>
        \A n \in Nodes :
            LET inner == InnerSize(props[n].size, tree[n].padding)
            IN  /\ props[n].size.x \in Nat /\ props[n].size.y \in Nat
                /\ props[n].position.x \in Nat /\ props[n].position.y \in Nat
                /\ inner.x \in 0..props[n].size.x
                /\ inner.y \in 0..props[n].size.y
                /\ GrowRemainingOf(n) \in 0..InnerMainOf(n)
                /\ PosRemainingOf(n) \in 0..InnerMainOf(n)
                /\ (status = "Ok" /\ n # Root) =>
                      /\ props[n].position.x >= props[Parent(n)].position.x
                      /\ props[n].position.y >= props[Parent(n)].position.y

\* C15 witness: a layout returned Ok for a root whose padding is larger than
\* its size and whose gaps are larger than its inner size; inner size and
\* remaining space are 0.
C15_Witness ==
    /\ status = "Ok"
    /\ tree[Root].padding.left + tree[Root].padding.right > props[Root].size.x
    /\ Len(tree[Root].children) = 2
    /\ GapTotal(2, tree[Root].gap) > InnerMainOf(Root)
    /\ Oversubscribed(Root)
    /\ InnerSize(props[Root].size, tree[Root].padding) = Vec(0, 0)
    /\ GrowRemainingOf(Root) = 0
    /\ PosRemainingOf(Root) = 0

----------------------------------------------------------------------------
\* Properties of the render walk (Spec)

\* the cells of the buffer a rectangle covers
Cells(r) ==
    {<<x, y>> : x \in r.x..(r.x + r.width - 1), y \in r.y..(r.y + r.height - 1)}

\* the rectangle the draw callback of node n was called with
DrawnArea(n) == drawn[CHOOSE i \in 1..Len(drawn) : drawn[i].node = n].area

\* the nodes on the path from the parent of n up to the root
RECURSIVE Ancestors(_)
Ancestors(n) == IF n = Root THEN {} ELSE {Parent(n)} \cup Ancestors(Parent(n))

\* C16: during render every node's draw callback gets a rectangle that lies
\* inside the rectangle given to the draw callback of each of its ancestors
\* and inside the destination rectangle `area`.
C16_DrawnInsideAncestors ==
    rstatus = "ok" =>
        \A n \in DrawnNodes :
            /\ Cells(DrawnArea(n)) \subseteq Cells(ScreenArea)
            /\ \A a \in Ancestors(n) :
                  /\ a \in DrawnNodes
                  /\ Cells(DrawnArea(n)) \subseteq Cells(DrawnArea(a))

\* C16 witness: render drew a child whose computed rectangle reaches outside
\* the rectangle of its parent; the child was drawn on a non-empty rectangle
\* smaller than its own.
C16_Witness ==
    /\ rstatus = "ok"
    /\ \E n \in DrawnNodes \ {Root} :
          /\ Cells(DrawnArea(n)) # {}
          /\ DrawnArea(n).width * DrawnArea(n).height
                < props[n].size.x * props[n].size.y
          /\ Cells(DrawnArea(n)) \subseteq Cells(DrawnArea(Parent(n)))

----------------------------------------------------------------------------
\* Properties of spawn_ui (SpecUi)

\* the entities spawn_ui inserted for builder b
SpawnedFrom(b) == {e \in 1..Len(world) : world[e].from = b}

C25_BuildersResolved ==
    upc = "done" =>
        /\ to_process = <<>>
        /\ \A e \in 1..Len(world) : ~world[e].builders.set
        /\ \A e \in 1..Len(world) :
              (world[e].from # 0 /\ ui[world[e].from].kids # <<>>) =>
                 LET want == ui[world[e].from].kids
                     ids  == world[e].children.ids
                 IN  /\ world[e].children.set
                     /\ Len(ids) = Len(want)
                     /\ \A k \in 1..Len(ids) :
                           ids[k] \in 1..Len(world) /\ world[ids[k]].from = want[k]

\* C25 witness: spawn_ui has returned for a root with two nested builders of
\* which the first has a nested builder of its own.
C25_Witness ==
    /\ upc = "done"
    /\ Len(ui) = 4
    /\ ui[1].kids = <<2, 3>>
    /\ ui[2].kids = <<4>>
    /\ Len(world) >= 4
    /\ world[1].children.ids = <<2, 3>>
    /\ world[2].children.ids = <<4>>

\* the elements of s without repetition, in the order of first occurrence
RECURSIVE FirstOccurrences(_)
FirstOccurrences(s) ==
    IF s = <<>> THEN <<>>
    ELSE LET rest == FirstOccurrences(SubSeq(s, 1, Len(s) - 1))
             last == s[Len(s)]
         IN  IF \E i \in 1..Len(rest) : rest[i] = last THEN rest ELSE Append(rest, last)

\* C18: the children sequence stored by element(..).children(list).create(ctx)
\* holds every handle of `list` at most once, also when the duplicates in
\* `list` are not adjacent, in the order of first occurrence.
C18_ChildrenDeduplicated ==
    \A e \in Created :
        LET ids == world[e].children.ids
        IN  /\ \A i, j \in 1..Len(ids) : ids[i] = ids[j] => i = j
            /\ ids = FirstOccurrences(world[e].given)

\* padding of 1 on the sides of the border set, 0 on the others
SidePadding(borders) ==
    [left   |-> IF "left" \in borders THEN 1 ELSE 0,
     right  |-> IF "right" \in borders THEN 1 ELSE 0,
     top    |-> IF "top" \in borders THEN 1 ELSE 0,
     bottom |-> IF "bottom" \in borders THEN 1 ELSE 0]

\* C20: for every subset of the four borders of an untitled Block the element
\* made by BlockExt::commit has padding 1 on exactly the sides with a border
\* and 0 on the others, and so has a Block that got its padding from
\* process_ui_system for lack of an explicit Padding.
C20_PaddingMatchesBorders ==
    \A e \in 1..Len(world) :
        /\ e \in Created => world[e].padding.val = SidePadding(world[e].borders)
        /\ (upc = "done" /\ e \notin Created /\ ~ui[world[e].from].padding.set) =>
              world[e].padding.val = SidePadding(world[e].borders)

----------------------------------------------------------------------------
\* Properties of the element store with a component missing (SpecAttr)

\* C19: when a live node reachable from the root lacks a component the layout
\* passes read, calculate_layout returns Err to the caller; it does not panic.
C19_MissingAttributeIsErr ==
    [][(calls' = calls + 1 /\ stripped # NoAttr /\ live = Nodes
            /\ LiveReachable(stripped.node)) =>
          status' = "Err"]_vars

----------------------------------------------------------------------------
\* Properties of the resources (SpecRes)

\* number of live Res<T> markers of type ty
ResCount(ty) == Len(LiveRes(rworld, ty))

\* C21: no lookup is served while two resources of one type exist: with two
\* or more Res<T> markers get_resource aborts on the `there can only be one
\* resource` assertion and returns neither value; with exactly one resource
\* a value written through get_resource::<&mut T> is what the next
\* get_resource::<&T> returns.
C21_OneResourcePerType ==
    [][(rret'.op = "get") =>
          /\ (ResCount(rret'.ty) >= 2) => rret'.out = "panic"
          /\ (rret.op = "mutate" /\ rret.out = "ok" /\ rret.ty = rret'.ty
                 /\ ResCount(rret'.ty) = 1) =>
                (rret'.out = "ok" /\ rret'.val = rret.val)]_vars

\* C21 witness: insert_resource was called twice for one type with nothing in
\* between and the lookup that followed aborted.
C21_Witness ==
    /\ rret.op = "get"
    /\ rret.out = "panic"
    /\ Len(rworld) = 4
    /\ ResCount(rret.ty) = 2
    /\ \A e \in 1..4 : rworld[e].ty = rret.ty /\ rworld[e].alive

----------------------------------------------------------------------------
\* Properties of the fit pass (Spec)

\* the size the policy gives on one axis: Fixed(n) clamped to the inner size
\* of the container, anything else the intrinsic size
FixedClamped(policy, intrinsic, inner) ==
    IF policy.k = "Fixed" THEN MinOf(policy.n, inner) ELSE intrinsic

\* C22: after calculate_fit_sizes on a node, a child whose policy on an axis
\* is Fixed(n) has min(n, inner size of the node on that axis) there, width
\* against inner width and height against inner height, and a child whose
\* policy is Fit or Grow keeps its intrinsic size, whatever the policy of the
\* node is.
C22_FixedChildrenClamped ==
    LET r == FitSizes(Root, props)
    IN  (live = Nodes /\ stripped = NoAttr /\ r.res = "ok") =>
          LET inner == InnerSize(r.props[Root].size, tree[Root].padding)
          IN  \A i \in 1..Len(tree[Root].children) :
                LET c    == tree[Root].children[i]
                    own  == FitSizes(c, props).props[c].size
                IN  /\ r.props[c].size.x = FixedClamped(tree[c].width, own.x, inner.x)
                    /\ r.props[c].size.y = FixedClamped(tree[c].height, own.y, inner.y)

\* sizes of the children of e on the main and on the cross axis of e
KidAxisSizes(e, P) ==
    [i \in 1..Len(tree[e].children) |-> Axify(P[tree[e].children[i]].size, tree[e].direction)]

\* what a Fit or Grow node accumulates: children and gaps and padding on the
\* main axis, the largest child and padding on the cross axis
Accumulated(e, P) ==
    LET ks  == KidAxisSizes(e, P)
        pad == tree[e].padding
        n   == Len(ks)
        hor == tree[e].direction = "Horizontal"
    IN  [main  |-> SumSeq([i \in 1..n |-> ks[i].main])
                    + tree[e].gap * (IF n = 0 THEN 0 ELSE n - 1)
                    + (IF hor THEN pad.left + pad.right ELSE pad.top + pad.bottom),
         cross |-> (IF n = 0 THEN 0 ELSE (CHOOSE m \in {ks[i].cross : i \in 1..n} :
                                                \A i \in 1..n : ks[i].cross <= m))
                    + (IF hor THEN pad.top + pad.bottom ELSE pad.left + pad.right)]

\* C23: after calculate_fit_sizes a node whose policy on an axis is Fit or
\* Grow has there, on its main axis, the sum of its children plus gap times
\* (children - 1) plus its two paddings, and on its cross axis the largest
\* child plus its two paddings; a childless node has its padding sums.
C23_FitIsAccumulated ==
    \A e \in Nodes :
        LET r == FitSizes(e, props)
        IN  (r.res = "ok") =>
              LET want == ToVec(Accumulated(e, r.props), tree[e].direction)
              IN  /\ tree[e].width.k \in {"Fit", "Grow"} => r.props[e].size.x = want.x
                  /\ tree[e].height.k \in {"Fit", "Grow"} => r.props[e].size.y = want.y

\* C23 witness: a layout went through on a Fit root with two children of
\* different heights, a gap and padding, laid out in a row.
C23_Witness ==
    /\ status = "Ok"
    /\ live = Nodes
    /\ tree[Root].width.k = "Fit"
    /\ tree[Root].height.k = "Fit"
    /\ tree[Root].direction = "Horizontal"
    /\ Len(tree[Root].children) = 2
    /\ tree[Root].gap = 1
    /\ tree[Root].padding = UniformPad(1)
    /\ props[2].size.y # props[3].size.y
    /\ props[2].size.x > 0
    /\ props[3].size.x > 0
    /\ props[Root].size = Vec(props[2].size.x + props[3].size.x + 3,
                              MaxOf(props[2].size.y, props[3].size.y) + 2)

----------------------------------------------------------------------------
\* Properties of the two growth implementations (SpecBox)

\* C24: the two implementations of calculate_grow_sizes agree: on the same
\* container and the same children, the main-axis sizes left by the
\* sort-and-group loop of mana-tui-elemental are those left by the
\* two-smallest loop of ratatui-elemental, a remainder of two or more units
\* included.
C24_GrowImplementationsAgree ==
    (bpc = "legacy") => (legacy.out = "ok" /\ legacy.sizes = ksize)

\* C28: in calculate_grow_sizes of ratatui-elemental the assertion on the two
\* tracked smallest Grow children never fails and the subtraction
\* `remaining_size - (bsize - asize)` never underflows.
C28_LegacyLoopIsSafe ==
    (bpc = "legacy") => legacy.out \notin {"assert", "underflow"}

----------------------------------------------------------------------------
\* Properties of the order of the passes (Spec)

\* the nodes reachable from the root along the children lists
ReachableNodes ==
    LET step(S) == S \cup UNION {{tree[n].children[i] : i \in 1..Len(tree[n].children)} : n \in S}
    IN  step(step(step({Root})))

\* the ranks at which `pass` was called, over the nodes of S
VisitRanks(S, pass) ==
    UNION {{props[n].visits[i].at : i \in {j \in 1..Len(props[n].visits) :
                                              props[n].visits[j].pass = pass}} : n \in S}

\* C26: in a call of calculate_layout on a tree that returns Ok each of the
\* three passes is called exactly once for every node reachable from the
\* root, every call of calculate_fit_sizes comes before every call of
\* calculate_grow_sizes, and every call of calculate_grow_sizes before every
\* call of calculate_positions.
C26_PassesInSequence ==
    status = "Ok" =>
        /\ \A n \in ReachableNodes :
              /\ Len(props[n].visits) = 3
              /\ props[n].visits[1].pass = "fit"
              /\ props[n].visits[2].pass = "grow"
              /\ props[n].visits[3].pass = "pos"
        /\ \A n \in Nodes \ ReachableNodes : props[n].visits = <<>>
        /\ \A f \in VisitRanks(Nodes, "fit"), g \in VisitRanks(Nodes, "grow") : f < g
        /\ \A g \in VisitRanks(Nodes, "grow"), q \in VisitRanks(Nodes, "pos") : g < q

\* C26 witness: a call returned Ok on a root with two children, after nine
\* calls of the passes.
C26_Witness ==
    /\ status = "Ok"
    /\ tree[Root].children = <<2, 3>>
    /\ TotalVisits(props, Len(props)) = 9
    /\ VisitRanks({2, 3}, "fit") = {2, 3}
    /\ VisitRanks({Root}, "grow") = {4}

----------------------------------------------------------------------------
\* Properties of the growth pass on the element store (Spec)

\* C27: calculate_grow_sizes leaves the non-growing children alone: the
\* main-axis size of a child whose main-axis policy is Fixed or Fit, and the
\* cross-axis size of a child whose cross-axis policy is not Grow, are after
\* the pass what they were before it.
C27_NonGrowingUntouched ==
    LET fit  == FitSizes(Root, ClearVisits(props))
        grow == GrowSizes(Root, fit.props)
    IN  (fit.res = "ok" /\ grow.res = "ok") =>
          \A e \in ReachableNodes : \A i \in 1..Len(tree[e].children) :
              LET c      == tree[e].children[i]
                  dir    == tree[e].direction
                  before == Axify(fit.props[c].size, dir)
                  after  == Axify(grow.props[c].size, dir)
              IN  /\ ~IsGrow(MainPolicy(dir, tree[c])) => after.main = before.main
                  /\ ~IsGrow(CrossPolicy(dir, tree[c])) => after.cross = before.cross

\* C27 witness: a layout went through on a row with room to spare that holds
\* a Fixed child and a Grow child; the Grow child was raised on both axes, the
\* Fixed child has its own width and height.
C27_Witness ==
    /\ status = "Ok"
    /\ tree[Root].children = <<2, 3>>
    /\ tree[Root].direction = "Horizontal"
    /\ tree[Root].width = FixedP(5)
    /\ tree[Root].height = FixedP(5)
    /\ tree[Root].padding = UniformPad(0)
    /\ tree[2].width = FixedP(3)
    /\ tree[2].height = FixedP(3)
    /\ tree[3].width = GrowP
    /\ tree[3].height = GrowP
    /\ props[2].size = Vec(3, 3)
    /\ props[3].size = Vec(3, 5)

----------------------------------------------------------------------------
\* Properties of the placement of the children (SpecBox)

\* C29: when calculate_positions completes for a container whose children
\* and gaps fit its inner main-axis size, then under every Justify the
\* main-axis interval [position, position + size) of every child lies inside
\* the inner main-axis interval of the container.
C29_ChildrenInsideInner ==
    (bpc = "done" /\ ~koff.panic
        /\ SumSeq(ksize) + GapTotal(Len(ksize), box.gap) <= box.inner) =>
        \A i \in 1..Len(ksize) :
            /\ koff.off[i] >= 0
            /\ koff.off[i] + ksize[i] <= box.inner

\* C29 witness: three children that fit were placed under SpaceAround with a
\* remainder of at least two units; the first one is off the leading edge and
\* the last one ends inside the container.
C29_Witness ==
    /\ bpc = "done"
    /\ ~koff.panic
    /\ koff.justify = "SpaceAround"
    /\ Len(ksize) = 3
    /\ \A i \in 1..3 : ksize[i] > 0
    /\ SumSeq(ksize) + GapTotal(3, box.gap) <= box.inner
    /\ PosRemaining(box.inner, ksize, box.gap) % 6 >= 2
    /\ koff.off[1] > 0
    /\ koff.off[3] + ksize[3] <= box.inner

----------------------------------------------------------------------------
\* Properties of the frame of the runtime (SpecFrame)

\* the steps of the frame that step i of the log belongs to, from the
\* spawn_ui of that frame up to step i
SinceSpawn(i) ==
    LET spawns == {j \in 1..i : flog[j].step = "spawn_ui"}
    IN  IF spawns = {} THEN <<>>
        ELSE SubSeq(flog, CHOOSE j \in spawns : \A k \in spawns : k <= j, i)

\* C30: in render the steps come in the order spawn_ui, calculate_layout,
\* render walk, generate_ui_stack, and in a frame whose calculate_layout
\* returned Err neither the render walk nor generate_ui_stack is invoked.
C30_FrameOrder ==
    \A i \in 1..Len(flog) :
        LET frame == SinceSpawn(i)
            n     == Len(frame)
        IN  /\ flog[i].step = "calculate_layout" =>
                  (n = 2 /\ frame[1].step = "spawn_ui")
            /\ flog[i].step = "render" =>
                  (n = 3 /\ frame[2] = Step("calculate_layout", "Ok"))
            /\ flog[i].step = "generate_ui_stack" =>
                  (n = 4 /\ frame[3].step = "render")
            /\ (n >= 2 /\ frame[2] = Step("calculate_layout", "Err")) =>
                  flog[i].step \notin {"render", "generate_ui_stack"}

\* C30 witness: a frame whose calculate_layout returned Err has ended without
\* a render walk, and a later frame has gone through the four steps.
C30_Witness ==
    /\ fpc = "wait"
    /\ Len(flog) >= 10
    /\ SubSeq(flog, 2, 4) = <<Step("spawn_ui", "-"), Step("calculate_layout", "Err"),
                               Step("draw", "Ok")>>
    /\ SubSeq(flog, Len(flog) - 4, Len(flog)) =
          <<Step("spawn_ui", "-"), Step("calculate_layout", "Ok"), Step("render", "-"),
            Step("generate_ui_stack", "-"), Step("draw", "Ok")>>

====
